---- MODULE Spec2Model ----
(***************************************************************************)
(* Model of the client orchestrator of src/client.go: the torrent table,   *)
(* Close, the accept loop with its admission gate, the receive-side        *)
(* handshake pipeline, outgoing attempts with their half-open entries,     *)
(* dialFirst, reducedDialTimeout, WaitAll, the initial messages of a       *)
(* connection and the ut_metadata messages.  Every action is one           *)
(* critical section of the client lock (cl.lock / cl.rLock) or one step    *)
(* of a goroutine between two blocking calls, so it is atomic here.        *)
(***************************************************************************)
EXTENDS Integers, FiniteSets, Sequences, TLC

\* ------------------------------------------------------------------ bounds
\* Torrent objects ever constructed by newTorrent in one run.
MaxSessions == 2
\* Streams ever returned by l.Accept() in one run.
MaxAccepts == 2
\* Entries of cl.onClose.
NumOnClose == 1
\* Peer candidates ever handed to a Torrent in one run.
MaxPeers == 2
\* The largest dial timeout, half-open limit and number of pending peers
\* reducedDialTimeout is called with.
MaxDuration == 6
MaxLimit == 3
MaxPending == 7
\* Calls of connection.Close on the connection made of a dialed stream.
MaxCloses == 2
\* Messages posted on a connection after its initial messages.
MaxLater == 1
\* Pieces of the metadata, and the bytes of a full metadata piece (1 << 14 in
\* the program).
MaxMetaPieces == 2
MaxChunk == 2

\* ------------------------------------------------------------------ values
InfoHashes == {"h1", "h2"}

\* The remote peer ids a handshake can deliver; "self" is cl.peerID.
PeerIDs == {"self", "p1", "p2"}

\* A nil *Torrent.
NoTorrent == 0

\* net.IP values.  fam "v4" is a 4-byte address, "v4in6" a 16-byte address
\* for which To4() is not nil, "v6" a 16-byte address for which it is nil.
IP(fam, net, host) == [fam |-> fam, net |-> net, host |-> host]

IPs ==
  { IP("v4", 1, 7), IP("v4in6", 1, 9), IP("v4", 2, 7), IP("v6", 1, 7), IP("v6", 1, 9) }

Ports == {0, 6881}

\* ip.To4() != nil
To4(ip) == ip.fam \in {"v4", "v4in6"}

\* len(ip)
IPLen(ip) == IF ip.fam = "v4" THEN 4 ELSE 16

\* ip.String(): a 4-in-6 address prints as the dotted IPv4 address.
IPString(ip) == IF To4(ip) THEN IP("v4", ip.net, ip.host) ELSE ip

\* The ClientConfig values the model runs under.
DefaultConfig ==
  [ DisableAcceptRateLimiting |-> FALSE, DisableIPv4 |-> FALSE,
    DisableIPv4Peers |-> FALSE, DisableIPv6 |-> FALSE,
    ForceEncryption |-> FALSE, DisableEncryption |-> FALSE,
    PreferNoEncryption |-> FALSE, IPBlocklist |-> {},
    DisableTCP |-> FALSE, DisableUTP |-> FALSE,
    EstablishedConnsPerTorrent |-> 1, HalfOpenConnsPerTorrent |-> 1 ]

Configs ==
  { DefaultConfig,
    [DefaultConfig EXCEPT !.DisableAcceptRateLimiting = TRUE, !.DisableIPv4 = TRUE,
                          !.IPBlocklist = {IPString(IP("v6", 1, 9))}],
    [DefaultConfig EXCEPT !.DisableIPv4Peers = TRUE, !.DisableIPv6 = TRUE,
                          !.ForceEncryption = TRUE] }

VARIABLES
  config,            \* cl.config
  closed,            \* cl.closed
  listeners,         \* cl.conns, the listening sockets
  torrents,          \* cl.torrents: InfoHash -> Torrent
  sess,              \* the Torrent objects ever constructed, by identity
  acceptLimiter,     \* cl.acceptLimiter: masked ip -> count (nil = empty)
  dopplegangerAddrs, \* cl.dopplegangerAddrs
  badPeerIPs,        \* cl.badPeerIPs
  numHalfOpen,       \* cl.numHalfOpen
  dt,                \* a call of reducedDialTimeout: its arguments and result
  im,                \* a registered connection as sendInitialMessages sees it
  md,                \* the ut_metadata state of a Torrent and one connection of it
  df,                \* a call of dialFirst: its arms, channel and result
  out,               \* the outgoingConnection tasks in flight, by candidate number
  nPeers,            \* peer candidates handed to Torrents so far
  acc,               \* the acceptConnections loop: position and accepted stream
  conns,             \* the connections in flight: c > 0 the c-th accepted stream,
                     \* c < 0 the connection of outgoingConnection task -c
  nAccepted,         \* streams returned by l.Accept() so far
  ret,               \* what the step just taken returned or decided
  firstAdd,          \* for each registered hash, the Torrent its inserting add returned
  snap,              \* the state before an add that inserted a torrent, while that
                     \* add, or that add and the drop of its torrent, were the last calls
  wpc,               \* the WaitAll caller's position
  wret,              \* what WaitAll returned
  closedInWait       \* Close ran while WaitAll was blocked on an incomplete session

vars ==
  << config, closed, listeners, torrents, sess, acceptLimiter, dopplegangerAddrs,
     badPeerIPs, numHalfOpen, dt, im, md, df, out, nPeers, acc, conns, nAccepted,
     ret, firstAdd, snap, wpc, wret, closedInWait >>

\* ----------------------------------------------------------------- helpers
EmptyMap == << >>

\* cl.onClose, the callbacks registered at construction.
onClose == 1..NumOnClose

NoSnap == [phase |-> "none"]

NoRet == [op |-> "none"]

\* No call of reducedDialTimeout.
NoCall == [pc |-> "none"]

\* No call of dialFirst.
NoDial == [pc |-> "none"]

\* No connection for sendInitialMessages.
NoInitial == [pc |-> "none"]

\* No metadata exchange.
NoMeta == [pc |-> "none"]

\* m with key k set to v.
MapSet(m, k, v) == [x \in DOMAIN m \cup {k} |-> IF x = k THEN v ELSE m[x]]

\* m without key k.
MapDel(m, k) == [x \in DOMAIN m \ {k} |-> m[x]]

\* A Go map read: the zero value when the key is absent.
MapGet(m, k, zero) == IF k \in DOMAIN m THEN m[k] ELSE zero

\* cl.event.Broadcast(): every task blocked in cl.event.Wait() becomes runnable.
Broadcast(pc) == IF pc = "waiting" THEN "woken" ELSE pc

\* The Torrent newTorrent returns.
newTorrent(ih) ==
  [ infoHash |-> ih, closed |-> FALSE, conns |-> {}, halfOpen |-> {},
    peers |-> {}, haveInfo |-> FALSE, haveAllPieces |-> FALSE ]

\* Torrent.close: the session is closed and so is every connection of it.
tclose(t) == [t EXCEPT !.closed = TRUE]

\* The connections closed by closing the Torrents in ts.
closeConnsOf(cs, ts) ==
  [c \in DOMAIN cs |->
     IF cs[c].pc = "running" /\ cs[c].t \in ts THEN [cs[c] EXCEPT !.closed = TRUE]
     ELSE cs[c]]

\* The registered Torrents.
Registered == {torrents[h] : h \in DOMAIN torrents}

\* t.haveInfo() && t.haveAllPieces() for every registered Torrent.
allTorrentsCompleted ==
  \A h \in DOMAIN torrents :
    sess[torrents[h]].haveInfo /\ sess[torrents[h]].haveAllPieces

Init ==
  /\ config \in Configs
  /\ closed = FALSE
  /\ listeners = {"tcp"}
  /\ torrents = EmptyMap
  /\ sess = EmptyMap
  /\ acceptLimiter = EmptyMap
  /\ dopplegangerAddrs = {}
  /\ badPeerIPs = {}
  /\ numHalfOpen = 0
  /\ dt = NoCall
  /\ im = NoInitial
  /\ md = NoMeta
  /\ df = NoDial
  /\ out = EmptyMap
  /\ nPeers = 0
  /\ acc = [pc |-> "accept", conn |-> FALSE]
  /\ conns = EmptyMap
  /\ nAccepted = 0
  /\ ret = NoRet
  /\ firstAdd = EmptyMap
  /\ snap = NoSnap
  /\ wpc = "idle"
  /\ wret = FALSE
  /\ closedInWait = FALSE

\* The variables the accept loop and the connection tasks own.
connVars == << acc, conns, nAccepted >>

\* The variables of the WaitAll caller other than its position.
waitVars == << wret >>

\* --------------------------------------------------------- public surface
\* clearAcceptLimits assigning the map to itself.
clearAcceptLimitsKeeps == acceptLimiter

\* clearAcceptLimits
clearAcceptLimits == EmptyMap

\* What add, drop and the clearer leave alone.
fixedVars ==
  << config, dopplegangerAddrs, badPeerIPs, numHalfOpen, dt, im, md, df, out, nPeers >>

\* The client state an add followed by a drop is compared on.
ClientState ==
  [ torrents |-> torrents, acceptLimiter |-> acceptLimiter,
    badPeerIPs |-> badPeerIPs, dopplegangerAddrs |-> dopplegangerAddrs,
    numHalfOpen |-> numHalfOpen ]

\* AddTorrentInfoHashWithStorage without the lookup of an existing Torrent:
\* every call constructs and registers one.
AddTorrentAlwaysNew(h) ==
  /\ Cardinality(DOMAIN sess) < MaxSessions
  /\ LET t == Cardinality(DOMAIN sess) + 1 IN
       /\ sess' = MapSet(sess, t, newTorrent(h))
       /\ torrents' = MapSet(torrents, h, t)
       /\ firstAdd' = IF h \in DOMAIN firstAdd THEN firstAdd ELSE MapSet(firstAdd, h, t)
       /\ ret' = [op |-> "add", h |-> h, t |-> t, new |-> TRUE]
  /\ acceptLimiter' = EmptyMap
  /\ snap' = NoSnap
  /\ wpc' = Broadcast(wpc)
  /\ UNCHANGED << fixedVars, closed, listeners, connVars, waitVars, closedInWait >>

AddTorrentInfoHashWithStorage(h) ==
  /\ IF h \in DOMAIN torrents
     THEN /\ ret' = [op |-> "add", h |-> h, t |-> torrents[h], new |-> FALSE]
          /\ snap' = NoSnap
          /\ UNCHANGED << torrents, sess, acceptLimiter, firstAdd, wpc >>
     ELSE /\ Cardinality(DOMAIN sess) < MaxSessions
          /\ LET t == Cardinality(DOMAIN sess) + 1 IN
               /\ sess' = MapSet(sess, t, newTorrent(h))
               /\ torrents' = MapSet(torrents, h, t)
               /\ firstAdd' = MapSet(firstAdd, h, t)
               /\ ret' = [op |-> "add", h |-> h, t |-> t, new |-> TRUE]
          /\ acceptLimiter' = clearAcceptLimits
          /\ snap' = [phase |-> "added", h |-> h, pre |-> ClientState]
          /\ wpc' = Broadcast(wpc)
  /\ UNCHANGED << fixedVars, closed, listeners, connVars,
                  waitVars, closedInWait >>

\* dropTorrent closing the Torrent and leaving its entry in the table.
dropTorrentKeepsEntry(h) ==
  /\ IF h \notin DOMAIN torrents
     THEN /\ ret' = [op |-> "drop", h |-> h, err |-> "no such torrent"]
          /\ UNCHANGED << sess, conns, wpc >>
     ELSE /\ sess' = [sess EXCEPT ![torrents[h]] = tclose(@)]
          /\ conns' = closeConnsOf(conns, {torrents[h]})
          /\ ret' = [op |-> "drop", h |-> h, err |-> "nil"]
          /\ wpc' = Broadcast(wpc)
  /\ snap' = IF snap.phase = "added" /\ snap.h = h
             THEN [snap EXCEPT !.phase = "dropped"] ELSE NoSnap
  /\ UNCHANGED << fixedVars, closed, listeners, acceptLimiter, acc, nAccepted,
                  waitVars, closedInWait, torrents, firstAdd >>

\* dropTorrent closing the Torrent and then emptying the whole table.
dropTorrentAll(h) ==
  /\ IF h \notin DOMAIN torrents
     THEN /\ ret' = [op |-> "drop", h |-> h, err |-> "no such torrent"]
          /\ UNCHANGED << torrents, sess, firstAdd, conns, wpc >>
     ELSE /\ sess' = [sess EXCEPT ![torrents[h]] = tclose(@)]
          /\ conns' = closeConnsOf(conns, {torrents[h]})
          /\ torrents' = EmptyMap
          /\ firstAdd' = EmptyMap
          /\ ret' = [op |-> "drop", h |-> h, err |-> "nil"]
          /\ wpc' = Broadcast(wpc)
  /\ snap' = NoSnap
  /\ UNCHANGED << fixedVars, closed, listeners, acceptLimiter, acc, nAccepted,
                  waitVars, closedInWait >>

\* dropTorrent deleting the entry without closing the Torrent.
dropTorrentNoClose(h) ==
  /\ IF h \notin DOMAIN torrents
     THEN /\ ret' = [op |-> "drop", h |-> h, err |-> "no such torrent"]
          /\ UNCHANGED << torrents, firstAdd, wpc >>
     ELSE /\ torrents' = MapDel(torrents, h)
          /\ firstAdd' = MapDel(firstAdd, h)
          /\ ret' = [op |-> "drop", h |-> h, err |-> "nil"]
          /\ wpc' = Broadcast(wpc)
  /\ snap' = IF snap.phase = "added" /\ snap.h = h
             THEN [snap EXCEPT !.phase = "dropped"] ELSE NoSnap
  /\ UNCHANGED << fixedVars, closed, listeners, acceptLimiter, acc, nAccepted,
                  waitVars, closedInWait, sess, conns >>

\* Torrent.Drop: dropTorrent under the client lock.
dropTorrent(h) ==
  /\ IF h \notin DOMAIN torrents
     THEN /\ ret' = [op |-> "drop", h |-> h, err |-> "no such torrent"]
          /\ UNCHANGED << torrents, sess, firstAdd, conns, wpc >>
     ELSE /\ sess' = [sess EXCEPT ![torrents[h]] = tclose(@)]
          /\ conns' = closeConnsOf(conns, {torrents[h]})
          /\ torrents' = MapDel(torrents, h)
          /\ firstAdd' = MapDel(firstAdd, h)
          /\ ret' = [op |-> "drop", h |-> h, err |-> "nil"]
          /\ wpc' = Broadcast(wpc)
  /\ snap' = IF snap.phase = "added" /\ snap.h = h
             THEN [snap EXCEPT !.phase = "dropped"] ELSE NoSnap
  /\ UNCHANGED << fixedVars, closed, listeners, acceptLimiter, acc, nAccepted, waitVars, closedInWait >>

\* closeSockets
closeSockets == {}

\* Close without the final cl.event.Broadcast().
CloseNoBroadcast ==
  /\ closed' = TRUE
  /\ listeners' = {}
  /\ sess' = [t \in DOMAIN sess |-> IF t \in Registered THEN tclose(sess[t]) ELSE sess[t]]
  /\ conns' = closeConnsOf(conns, Registered)
  /\ closedInWait' =
       (closedInWait \/ (wpc \in {"waiting", "woken"} /\ ~allTorrentsCompleted))
  /\ ret' = [op |-> "close", closedTorrents |-> Registered, invoked |-> onClose]
  /\ snap' = NoSnap
  /\ UNCHANGED << fixedVars, torrents, acceptLimiter, acc, nAccepted, firstAdd,
                  waitVars, wpc >>

\* Close.  ret names what the call did besides: the Torrents it closed and
\* the callbacks of cl.onClose it invoked.
Close ==
  /\ closed' = TRUE
  /\ listeners' = closeSockets
  /\ sess' = [t \in DOMAIN sess |-> IF t \in Registered THEN tclose(sess[t]) ELSE sess[t]]
  /\ conns' = closeConnsOf(conns, Registered)
  /\ wpc' = Broadcast(wpc)
  /\ closedInWait' =
       (closedInWait \/ (wpc \in {"waiting", "woken"} /\ ~allTorrentsCompleted))
  /\ ret' = [op |-> "close", closedTorrents |-> Registered, invoked |-> onClose]
  /\ snap' = NoSnap
  /\ UNCHANGED << fixedVars, torrents, acceptLimiter, acc, nAccepted, firstAdd,
                  waitVars >>

\* The addresses banPeerIP is called with.
BannedIPs == {IP("v4", 2, 7)}

banPeerIP(ip) ==
  /\ badPeerIPs' = badPeerIPs \cup {IPString(ip)}
  /\ snap' = NoSnap
  /\ ret' = NoRet
  /\ UNCHANGED << config, closed, listeners, torrents, sess, acceptLimiter,
                  dopplegangerAddrs, numHalfOpen, dt, im, md, df, out, nPeers, connVars,
                  firstAdd, wpc, waitVars, closedInWait >>

\* ---------------------------------------------------------- accept limiter
maskIpForAcceptLimiting(ip) == IF To4(ip) THEN IP("v4", ip.net, 0) ELSE ip

\* onBadAccept counting under the address itself instead of its mask.
onBadAcceptUnmasked(ip) ==
  LET k == IPString(ip) IN
    MapSet(acceptLimiter, k, MapGet(acceptLimiter, k, 0) + 1)

\* cl.acceptLimiter after onBadAccept(addr).
onBadAccept(ip) ==
  LET k == IPString(maskIpForAcceptLimiting(ip)) IN
    MapSet(acceptLimiter, k, MapGet(acceptLimiter, k, 0) + 1)

\* rateLimitAccept looking the address up without masking it.
rateLimitAcceptUnmasked(ip) ==
  IF config.DisableAcceptRateLimiting THEN FALSE
  ELSE MapGet(acceptLimiter, IPString(ip), 0) > 0

rateLimitAccept(ip) ==
  IF config.DisableAcceptRateLimiting THEN FALSE
  ELSE MapGet(acceptLimiter, IPString(maskIpForAcceptLimiting(ip)), 0) > 0

\* One round of the acceptLimitClearer loop: the 15 minutes have passed.
acceptLimitClearer ==
  /\ ~closed
  /\ acceptLimiter' = clearAcceptLimits
  /\ snap' = NoSnap
  /\ ret' = NoRet
  /\ UNCHANGED << fixedVars, closed, listeners, torrents, sess, connVars, firstAdd, wpc, waitVars, closedInWait >>

\* ------------------------------------------------------------ admission
\* net.JoinHostPort(ip.String(), port)
JoinHostPort(ip, port) == << IPString(ip), port >>

dopplegangerAddr(addr) == addr \in dopplegangerAddrs

\* cl.ipBlockRange(ip) finds a range.
ipIsBlocked(ip) == IPString(ip) \in config.IPBlocklist

badPeerIPPort(ip, port) ==
  \/ port = 0
  \/ dopplegangerAddr(JoinHostPort(ip, port))
  \/ ipIsBlocked(ip)
  \/ IPString(ip) \in badPeerIPs

rejectAccepted(ip, port) ==
  \/ config.DisableIPv4Peers /\ To4(ip)
  \/ config.DisableIPv4 /\ IPLen(ip) = 4
  \/ config.DisableIPv6 /\ IPLen(ip) = 16 /\ ~To4(ip)
  \/ rateLimitAccept(ip)
  \/ badPeerIPPort(ip, port)

\* The connection newConnection returns for an accepted stream.
newConnection(ip, port) ==
  [ ip |-> ip, port |-> port, outgoing |-> FALSE, pc |-> "handshaking",
    err |-> FALSE, t |-> NoTorrent, ih |-> "none", PeerID |-> "none",
    headerEncrypted |-> FALSE, closed |-> FALSE, stage |-> "none" ]

\* What every step of the accept loop and of a connection task leaves alone.
clientVars ==
  << config, closed, listeners, torrents, badPeerIPs, dt, im, md, df, nPeers, firstAdd,
     wpc, waitVars, closedInWait >>

\* What the dialing side owns besides.
dialerVars == << dopplegangerAddrs, numHalfOpen, out >>

\* acceptConnections: l.Accept() returns a stream.
lAccept ==
  /\ acc.pc = "accept"
  /\ listeners # {}
  /\ nAccepted < MaxAccepts
  /\ acc' = [pc |-> "locked", conn |-> TRUE]
  /\ nAccepted' = nAccepted + 1
  /\ snap' = NoSnap
  /\ ret' = NoRet
  /\ UNCHANGED << clientVars, dialerVars, sess, acceptLimiter, conns >>

\* acceptConnections: l.Accept() returns an error and no stream.
lAcceptErr ==
  /\ acc.pc = "accept"
  /\ acc' = [pc |-> "locked", conn |-> FALSE]
  /\ snap' = NoSnap
  /\ ret' = NoRet
  /\ UNCHANGED << clientVars, dialerVars, sess, acceptLimiter, conns, nAccepted >>

\* acceptConnections looking at the error of Accept before it looks at
\* closed.
acceptConnectionsErrFirst(ip, port) ==
  /\ acc.pc = "locked"
  /\ IF ~acc.conn
     THEN acc' = [pc |-> "accept", conn |-> FALSE] /\ UNCHANGED conns
     ELSE IF closed
     THEN acc' = [pc |-> "exited", conn |-> FALSE] /\ UNCHANGED conns
     ELSE /\ acc' = [pc |-> "accept", conn |-> FALSE]
          /\ IF rejectAccepted(ip, port)
             THEN UNCHANGED conns
             ELSE conns' = MapSet(conns, nAccepted, newConnection(ip, port))
  /\ ret' = IF acc.conn /\ ~closed
            THEN [op |-> "accepted", ip |-> ip, port |-> port,
                  reject |-> rejectAccepted(ip, port)]
            ELSE IF acc.conn THEN [op |-> "acceptor exit", conn |-> acc.conn]
            ELSE NoRet
  /\ snap' = NoSnap
  /\ UNCHANGED << clientVars, dialerVars, sess, acceptLimiter, nAccepted >>

\* acceptConnections: the decision taken under the read lock, ip:port being
\* the remote address of the accepted stream, if there is one.  When the
\* loop returns, ret tells whether it closed a stream it had just accepted.
acceptConnections(ip, port) ==
  /\ acc.pc = "locked"
  /\ IF closed
     THEN acc' = [pc |-> "exited", conn |-> FALSE] /\ UNCHANGED conns
     ELSE /\ acc' = [pc |-> "accept", conn |-> FALSE]
          /\ IF ~acc.conn \/ rejectAccepted(ip, port)
             THEN UNCHANGED conns
             ELSE conns' = MapSet(conns, nAccepted, newConnection(ip, port))
  /\ ret' = IF acc.conn /\ ~closed
            THEN [op |-> "accepted", ip |-> ip, port |-> port,
                  reject |-> rejectAccepted(ip, port)]
            ELSE IF closed THEN [op |-> "acceptor exit", conn |-> acc.conn]
            ELSE NoRet
  /\ snap' = NoSnap
  /\ UNCHANGED << clientVars, dialerVars, sess, acceptLimiter, nAccepted >>

\* ------------------------------------------------- receive-side handshakes
\* What the remote and the wire make of one receive-side handshake:
\* enc is handleEncryption's outcome ("err" an error, "plain" no obfuscated
\* header, "mse" an obfuscated header whose key is a loaded infohash, "noskey"
\* mse.ErrNoSecretKeyMatch), bt is pp.Handshake's outcome, ih and pid are the
\* infohash and peer id the remote sent.
HandshakeInputs ==
  [enc : {"err", "plain", "mse", "noskey"}, bt : {"err", "refused", "ok"},
   ih : InfoHashes, pid : PeerIDs]

\* handleEncryption's headerEncrypted result.
headerEncrypted(in) == in.enc \in {"mse", "noskey"}

\* receiveHandshakes returning mse.ErrNoSecretKeyMatch to its caller as an
\* error.
receiveHandshakesNoSkeyErr(c, in) ==
  LET he == headerEncrypted(in)
      failed(at) == [c EXCEPT !.pc = "handshook", !.err = TRUE,
                              !.headerEncrypted = he, !.stage = at]
      noTorrent(at) == [c EXCEPT !.pc = "handshook", !.headerEncrypted = he,
                                 !.stage = at]
  IN  IF in.enc = "err" THEN failed("encryption")
      ELSE IF in.enc = "noskey" THEN failed("encryption")
      ELSE IF config.ForceEncryption /\ ~he THEN failed("policy")
      ELSE IF in.bt = "err" THEN failed("bt")
      ELSE IF in.bt = "refused" THEN noTorrent("bt")
      ELSE [c EXCEPT !.pc = "handshook", !.headerEncrypted = he, !.PeerID = in.pid,
                     !.stage = "lookup",
                     !.t = MapGet(torrents, in.ih, NoTorrent),
                     !.ih = IF in.ih \in DOMAIN torrents THEN in.ih ELSE "none"]

\* receiveHandshakes: the connection it leaves, with the error and the
\* Torrent it returns.  stage names the step it returned from: the
\* encryption handling, the ForceEncryption check, the BitTorrent handshake
\* or the lookup of the Torrent.
receiveHandshakes(c, in) ==
  LET he == headerEncrypted(in)
      failed(at) == [c EXCEPT !.pc = "handshook", !.err = TRUE,
                              !.headerEncrypted = he, !.stage = at]
      noTorrent(at) == [c EXCEPT !.pc = "handshook", !.headerEncrypted = he,
                                 !.stage = at]
  IN  IF in.enc = "err" THEN failed("encryption")
      ELSE IF in.enc = "noskey" THEN noTorrent("encryption")
      ELSE IF config.ForceEncryption /\ ~he THEN failed("policy")
      ELSE IF in.bt = "err" THEN failed("bt")
      ELSE IF in.bt = "refused" THEN noTorrent("bt")
      ELSE [c EXCEPT !.pc = "handshook", !.headerEncrypted = he, !.PeerID = in.pid,
                     !.stage = "lookup",
                     !.t = MapGet(torrents, in.ih, NoTorrent),
                     !.ih = IF in.ih \in DOMAIN torrents THEN in.ih ELSE "none"]

\* runReceivedConn up to the return of receiveHandshakes.
doReceiveHandshakes(c, in) ==
  /\ c \in DOMAIN conns
  /\ ~conns[c].outgoing
  /\ conns[c].pc = "handshaking"
  /\ in.enc = "mse" => DOMAIN torrents # {}
  /\ conns' = [conns EXCEPT ![c] = receiveHandshakes(@, in)]
  /\ snap' = NoSnap
  /\ ret' = NoRet
  /\ UNCHANGED << clientVars, dialerVars, sess, acceptLimiter, acc, nAccepted >>

\* Torrent.addConnection: the ways it can end for connection c on Torrent t
\* of the sessions S.  "reject" is an error return, "add" registers c,
\* <<"evict", w>> closes and unregisters w before registering c.
addConnectionOutcomes(S, t, c) ==
  IF S[t].closed THEN {<< "reject", 0 >>}
  ELSE IF \E w \in S[t].conns : conns[w].PeerID = conns[c].PeerID
       THEN {<< "reject", 0 >>}
  ELSE IF Cardinality(S[t].conns) >= config.EstablishedConnsPerTorrent
       THEN {<< "reject", 0 >>} \cup {<< "evict", w >> : w \in S[t].conns}
  ELSE {<< "add", 0 >>}

\* c.conn.RemoteAddr().String()
RemoteAddrString(c) == JoinHostPort(c.ip, c.port)

\* runHandshookConn recording the remote address of every connection that
\* presents the client's own peer id, whatever its direction.
runHandshookConnRecordsAll(S, c, t, o) ==
  IF conns[c].PeerID = "self"
  THEN /\ dopplegangerAddrs' = dopplegangerAddrs \cup {RemoteAddrString(conns[c])}
       /\ conns' = [w \in DOMAIN conns \ {c} |-> conns[w]]
       /\ sess' = S
  ELSE IF o[1] = "reject"
  THEN /\ conns' = [w \in DOMAIN conns \ {c} |-> conns[w]]
       /\ sess' = S
       /\ UNCHANGED dopplegangerAddrs
  ELSE /\ sess' = [S EXCEPT ![t].conns = (@ \ {o[2]}) \cup {c}]
       /\ conns' = [w \in DOMAIN conns |->
                      IF w = c THEN [conns[c] EXCEPT !.pc = "running"]
                      ELSE IF w = o[2] THEN [conns[w] EXCEPT !.closed = TRUE]
                      ELSE conns[w]]
       /\ UNCHANGED dopplegangerAddrs

\* runHandshookConn up to mainReadLoop, for connection c and Torrent t, the
\* sessions being S when it is called and o being how addConnection ends.
runHandshookConn(S, c, t, o) ==
  IF conns[c].PeerID = "self"
  THEN /\ dopplegangerAddrs' =
            IF conns[c].outgoing
            THEN dopplegangerAddrs \cup {RemoteAddrString(conns[c])}
            ELSE dopplegangerAddrs
       /\ conns' = MapDel(conns, c)
       /\ sess' = S
  ELSE IF o[1] = "reject"
  THEN /\ conns' = MapDel(conns, c)
       /\ sess' = S
       /\ UNCHANGED dopplegangerAddrs
  ELSE /\ sess' = [S EXCEPT ![t].conns = (@ \ {o[2]}) \cup {c}]
       /\ conns' = [w \in DOMAIN conns |->
                      IF w = c THEN [conns[c] EXCEPT !.pc = "running"]
                      ELSE IF w = o[2] THEN [conns[w] EXCEPT !.closed = TRUE]
                      ELSE conns[w]]
       /\ UNCHANGED dopplegangerAddrs

\* runReceivedConn after receiveHandshakes has returned.
runReceivedConn(c) ==
  /\ c \in DOMAIN conns
  /\ ~conns[c].outgoing
  /\ conns[c].pc = "handshook"
  /\ IF conns[c].err \/ conns[c].t = NoTorrent
     THEN /\ acceptLimiter' = onBadAccept(conns[c].ip)
          /\ conns' = MapDel(conns, c)
          /\ UNCHANGED << sess, dopplegangerAddrs >>
     ELSE /\ \E o \in addConnectionOutcomes(sess, conns[c].t, c) :
               runHandshookConn(sess, c, conns[c].t, o)
          /\ UNCHANGED acceptLimiter
  /\ snap' = NoSnap
  /\ ret' = NoRet
  /\ UNCHANGED << clientVars, numHalfOpen, out, acc, nAccepted >>

\* ------------------------------------------------------------- the dialer
\* The addresses peer candidates are announced with.
PeerAddrs ==
  { << IP("v4", 1, 7), 6881 >>, << IP("v4in6", 1, 9), 6881 >>, << IP("v4", 1, 7), 0 >> }

\* Torrent.addrActive: the address is being dialed or is that of a
\* registered connection.
addrActive(S, t, addr) ==
  \/ addr \in S[t].halfOpen
  \/ \E c \in S[t].conns : JoinHostPort(conns[c].ip, conns[c].port) = addr

\* Torrent.wantConns
wantConns(S, t) ==
  /\ ~S[t].closed
  /\ Cardinality(S[t].conns) < config.EstablishedConnsPerTorrent

\* The outgoingConnection task spawned for candidate p of Torrent t.
newTask(t, p) ==
  [ t |-> t, ip |-> p.ip, port |-> p.port, pc |-> "first", err |-> FALSE,
    rounds |-> << >> ]

\* Torrent.initiateConn on the dialer state st (the sessions, the tasks and
\* the global half-open counter): the candidate is refused by admission or
\* is active already, or it becomes half-open and its task is spawned.
initiateConn(st, t, p) ==
  LET addr == JoinHostPort(p.ip, p.port) IN
    IF badPeerIPPort(p.ip, p.port) \/ addrActive(st.sess, t, addr) THEN st
    ELSE [ sess |-> [st.sess EXCEPT ![t].halfOpen = @ \cup {addr}],
           out |-> MapSet(st.out, p.id, newTask(t, p)),
           numHalfOpen |-> st.numHalfOpen + 1 ]

\* The candidate the peer set pops first.
PopMax(ps) == CHOOSE p \in ps : \A q \in ps : p.id <= q.id

\* Torrent.openNewConns that never looks at the half-open cap.
RECURSIVE openNewConnsNoCap(_, _)
openNewConnsNoCap(st, t) ==
  LET T == st.sess[t] IN
    IF T.peers = {} \/ ~wantConns(st.sess, t) THEN st
    ELSE LET p == PopMax(T.peers) IN
           openNewConnsNoCap(
             initiateConn([st EXCEPT !.sess[t].peers = @ \ {p}], t, p), t)

\* Torrent.openNewConns
RECURSIVE openNewConns(_, _)
openNewConns(st, t) ==
  LET T == st.sess[t] IN
    IF \/ T.peers = {}
       \/ ~wantConns(st.sess, t)
       \/ Cardinality(T.halfOpen) >= config.HalfOpenConnsPerTorrent
    THEN st
    ELSE LET p == PopMax(T.peers) IN
           openNewConns(initiateConn([st EXCEPT !.sess[t].peers = @ \ {p}], t, p), t)

\* openNewConns on every Torrent of ts.
RECURSIVE openNewConnsEach(_, _)
openNewConnsEach(st, ts) ==
  IF ts = {} THEN st
  ELSE LET t == CHOOSE x \in ts : TRUE IN
         openNewConnsEach(openNewConns(st, t), ts \ {t})

\* The dialer state of the client.
DialerState == [sess |-> sess, out |-> out, numHalfOpen |-> numHalfOpen]

\* Torrent.AddPeers with one candidate.
AddPeers(t, ip, port) ==
  /\ t \in DOMAIN sess
  /\ nPeers < MaxPeers
  /\ \A q \in sess[t].peers : q.ip # ip \/ q.port # port
  /\ LET p == [id |-> nPeers + 1, ip |-> ip, port |-> port]
         st == openNewConns([DialerState EXCEPT !.sess[t].peers = @ \cup {p}], t)
     IN  /\ sess' = st.sess
         /\ out' = st.out
         /\ numHalfOpen' = st.numHalfOpen
  /\ nPeers' = nPeers + 1
  /\ snap' = NoSnap
  /\ ret' = NoRet
  /\ UNCHANGED << config, closed, listeners, torrents, acceptLimiter,
                  dopplegangerAddrs, badPeerIPs, dt, im, md, df, connVars, firstAdd, wpc,
                  waitVars, closedInWait >>

\* What the remote and the network make of one round of an outgoing attempt:
\* dial is dialFirst's outcome, mse that of mse.InitiateHandshake, bt that of
\* pp.Handshake, ih and pid the infohash and the peer id the remote sent.
OutInputs ==
  [dial : {"none", "conn"}, mse : {"err", "ok"}, bt : {"err", "refused", "ok"},
   ih : InfoHashes, pid : PeerIDs]

\* initiateHandshakes with header mode obf on Torrent t.
initiateHandshakes(t, obf, in) ==
  IF obf /\ in.mse = "err" THEN [ok |-> FALSE, err |-> TRUE]
  ELSE IF in.bt = "err" THEN [ok |-> FALSE, err |-> TRUE]
  ELSE IF in.bt = "refused" THEN [ok |-> FALSE, err |-> FALSE]
  ELSE [ok |-> in.ih = sess[t].infoHash, err |-> FALSE]

\* establishOutgoingConnEx: whether it returns a connection, and its error.
establishOutgoingConnEx(t, obf, in) ==
  IF in.dial = "none" \/ listeners = {} THEN [c |-> FALSE, err |-> FALSE]
  ELSE LET hs == initiateHandshakes(t, obf, in) IN [c |-> hs.ok, err |-> hs.err]

\* !cl.config.DisableEncryption && !cl.config.PreferNoEncryption
obfuscatedHeaderFirst == ~config.DisableEncryption /\ ~config.PreferNoEncryption

\* establishOutgoingConn, one round of dialing and handshaking per step.
establishOutgoingConn(k, in) ==
  /\ k \in DOMAIN out
  /\ out[k].pc \in {"first", "second"}
  /\ LET T == out[k]
         obf == IF T.pc = "first" THEN obfuscatedHeaderFirst
                ELSE ~obfuscatedHeaderFirst
         r == establishOutgoingConnEx(T.t, obf, in)
         rounds == Append(T.rounds, [obf |-> obf, ok |-> r.c])
         pc == IF T.pc = "second" \/ r.err \/ r.c THEN "established"
               ELSE IF config.ForceEncryption
                    THEN IF obfuscatedHeaderFirst THEN "established" ELSE "panicked"
               ELSE "second"
     IN  /\ out' = [out EXCEPT ![k] = [T EXCEPT !.pc = pc, !.err = r.err,
                                                !.rounds = rounds]]
         /\ conns' = IF r.c
                     THEN MapSet(conns, -k,
                            [newConnection(T.ip, T.port) EXCEPT
                               !.outgoing = TRUE, !.headerEncrypted = obf,
                               !.PeerID = in.pid, !.t = T.t, !.ih = in.ih,
                               !.pc = "handshook"])
                     ELSE conns
  /\ snap' = NoSnap
  /\ ret' = NoRet
  /\ UNCHANGED << clientVars, sess, acceptLimiter, dopplegangerAddrs, numHalfOpen,
                  acc, nAccepted >>

\* noLongerHalfOpen counting the attempt down and leaving its entry in
\* t.halfOpen.
noLongerHalfOpenKeepsEntry(k) ==
  LET T == out[k] IN
    openNewConnsEach(
      [ sess |-> sess, out |-> MapDel(out, k), numHalfOpen |-> numHalfOpen - 1 ],
      Registered)

\* noLongerHalfOpen for task k: the dialer state it leaves.
noLongerHalfOpen(k) ==
  LET T == out[k]
      addr == JoinHostPort(T.ip, T.port)
  IN  openNewConnsEach(
        [ sess |-> [sess EXCEPT ![T.t].halfOpen = @ \ {addr}],
          out |-> MapDel(out, k),
          numHalfOpen |-> numHalfOpen - 1 ],
        Registered)

\* outgoingConnection from the return of establishOutgoingConn, under the
\* client lock.
outgoingConnection(k) ==
  /\ k \in DOMAIN out
  /\ out[k].pc = "established"
  /\ LET T == out[k] IN
       IF JoinHostPort(T.ip, T.port) \notin sess[T.t].halfOpen
       THEN /\ out' = [out EXCEPT ![k].pc = "invariant broken"]
            /\ UNCHANGED << sess, conns, numHalfOpen, dopplegangerAddrs >>
       ELSE LET st == noLongerHalfOpen(k) IN
              /\ out' = st.out
              /\ numHalfOpen' = st.numHalfOpen
              /\ IF T.err \/ -k \notin DOMAIN conns
                 THEN /\ sess' = st.sess
                      /\ UNCHANGED << conns, dopplegangerAddrs >>
                 ELSE \E o \in addConnectionOutcomes(st.sess, T.t, -k) :
                        runHandshookConn(st.sess, -k, T.t, o)
  /\ snap' = NoSnap
  /\ ret' = NoRet
  /\ UNCHANGED << clientVars, acceptLimiter, acc, nAccepted >>

\* runHandshookConn from the return of mainReadLoop: dropConnection.
connExit(c) ==
  /\ c \in DOMAIN conns
  /\ conns[c].pc = "running"
  /\ LET t == conns[c].t
         st == [DialerState EXCEPT !.sess[t].conns = @ \ {c}]
         st2 == IF c \in sess[t].conns THEN openNewConns(st, t) ELSE st
     IN  /\ sess' = st2.sess
         /\ out' = st2.out
         /\ numHalfOpen' = st2.numHalfOpen
  /\ conns' = MapDel(conns, c)
  /\ snap' = NoSnap
  /\ ret' = NoRet
  /\ UNCHANGED << clientVars, dopplegangerAddrs, acceptLimiter, acc, nAccepted >>

\* ------------------------------------------------------ the dial timeout
\* The larger of two durations.
MaxOf(a, b) == IF a >= b THEN a ELSE b

\* reducedDialTimeout dividing by the ceiling of the ratio.
reducedDialTimeoutCeil(minDialTimeout, max, halfOpenLimit, pendingPeers) ==
  MaxOf(minDialTimeout,
        max \div ((pendingPeers + halfOpenLimit + halfOpenLimit - 1) \div halfOpenLimit))

\* reducedDialTimeout without its lower limit.
reducedDialTimeoutNoFloor(minDialTimeout, max, halfOpenLimit, pendingPeers) ==
  max \div ((pendingPeers + halfOpenLimit) \div halfOpenLimit)

\* reducedDialTimeout: both divisions are Go's integer division of
\* non-negative operands.
reducedDialTimeout(minDialTimeout, max, halfOpenLimit, pendingPeers) ==
  LET r == max \div ((pendingPeers + halfOpenLimit) \div halfOpenLimit) IN
    IF r < minDialTimeout THEN minDialTimeout ELSE r

\* The calls of reducedDialTimeout that are studied.
TimeoutCalls ==
  [ pc : {"call"}, min : 1..MaxDuration, max : 1..MaxDuration,
    limit : 1..MaxLimit, pending : 0..MaxPending, ret : {0} ]

\* What a step of a call of reducedDialTimeout leaves alone.
timeoutRest ==
  << config, closed, listeners, torrents, sess, acceptLimiter, dopplegangerAddrs,
     badPeerIPs, numHalfOpen, im, md, df, out, nPeers, connVars, firstAdd, wpc, waitVars,
     closedInWait >>

\* Torrent.dialTimeout: reducedDialTimeout is called and returns.
dialTimeout ==
  /\ dt.pc = "call"
  /\ dt' = [dt EXCEPT !.pc = "done",
                       !.ret = reducedDialTimeout(dt.min, dt.max, dt.limit, dt.pending)]
  /\ snap' = NoSnap
  /\ ret' = NoRet
  /\ UNCHANGED timeoutRest

\* One more peer is pending and the timeout is computed again.
dialTimeoutMorePending ==
  /\ dt.pc = "done"
  /\ dt.pending < MaxPending
  /\ dt' = [dt EXCEPT !.pending = dt.pending + 1,
                       !.ret = reducedDialTimeout(dt.min, dt.max, dt.limit,
                                                  dt.pending + 1)]
  /\ snap' = NoSnap
  /\ ret' = NoRet
  /\ UNCHANGED timeoutRest

\* --------------------------------------------------------------- dialFirst
\* peerNetworkEnabled(network, cl.config)
peerNetworkEnabled(n) ==
  /\ n = "tcp" => ~config.DisableTCP
  /\ n = "udp" => ~config.DisableUTP

\* A dial arm as its goroutine starts: no tracker entry, no stream.
newArm == [pc |-> "wait", cte |-> "nil", released |-> 0, conn |-> "none"]

\* The calls of dialFirst that are studied: the caller's context may be done
\* already.
DialCalls ==
  [ pc : {"call"}, cancelled : BOOLEAN, left : {0}, res : {"none"},
    firstOk : {"none"}, arms : {EmptyMap}, hs : {"none"}, closes : {0},
    cclosed : {FALSE} ]

\* What a step of a call of dialFirst leaves alone.
dialRest ==
  << config, closed, listeners, torrents, sess, acceptLimiter, dopplegangerAddrs,
     badPeerIPs, numHalfOpen, dt, im, md, out, nPeers, connVars, firstAdd, wpc, waitVars,
     closedInWait >>

\* closeWrapper.Close on the stream of arm a: the stream is closed and the
\* tracker entry is released with Done.
closeWrapperClose(a) == [a EXCEPT !.conn = "closed", !.released = @ + 1]

\* dialFirst up to its wait loop: one arm per listener whose network is
\* enabled, started under the client lock.
dialFirst ==
  /\ df.pc = "call"
  /\ LET ns == {n \in listeners : peerNetworkEnabled(n)} IN
       df' = [df EXCEPT !.pc = "waiting", !.left = Cardinality(ns),
                        !.arms = [n \in ns |-> newArm]]
  /\ snap' = NoSnap
  /\ ret' = NoRet
  /\ UNCHANGED dialRest

\* The dial context is done before dialFirst returns: the caller's timeout.
ctxDone ==
  /\ df.pc = "waiting"
  /\ ~df.cancelled
  /\ df' = [df EXCEPT !.cancelled = TRUE]
  /\ snap' = NoSnap
  /\ ret' = NoRet
  /\ UNCHANGED dialRest

\* An arm returns from ConnTracker.Wait: with an entry, or with nil, which
\* takes the context to be done.
armWait(n, got) ==
  /\ df.pc \in {"waiting", "returned"}
  /\ n \in DOMAIN df.arms
  /\ df.arms[n].pc = "wait"
  /\ ~got => df.cancelled
  /\ df' = [df EXCEPT !.arms[n].pc = "check",
                      !.arms[n].cte = IF got THEN "held" ELSE "nil"]
  /\ snap' = NoSnap
  /\ ret' = NoRet
  /\ UNCHANGED dialRest

\* An arm tests ctx.Err(): with the context done it forgets its entry and
\* has an empty result to send.
armCheck(n) ==
  /\ df.pc \in {"waiting", "returned"}
  /\ n \in DOMAIN df.arms
  /\ df.arms[n].pc = "check"
  /\ df' = IF df.cancelled
           THEN [df EXCEPT !.arms[n].pc = "send",
                           !.arms[n].released =
                              IF df.arms[n].cte = "held" THEN @ + 1 ELSE @]
           ELSE [df EXCEPT !.arms[n].pc = "dial"]
  /\ snap' = NoSnap
  /\ ret' = NoRet
  /\ UNCHANGED dialRest

\* An arm whose failed dial leaves the tracker entry alone.
armDialKeepsEntry(n, o) ==
  /\ df.pc \in {"waiting", "returned"}
  /\ n \in DOMAIN df.arms
  /\ df.arms[n].pc = "dial"
  /\ df' = IF o = "conn"
           THEN [df EXCEPT !.arms[n].pc = "send", !.arms[n].conn = "open"]
           ELSE [df EXCEPT !.arms[n].pc = "send"]
  /\ snap' = NoSnap
  /\ ret' = NoRet
  /\ UNCHANGED dialRest

\* An arm returns from s.dial: with a stream ("conn"), which it wraps, or
\* without, and then it forgets its entry ("forget") or calls Done ("fail").
armDial(n, o) ==
  /\ df.pc \in {"waiting", "returned"}
  /\ n \in DOMAIN df.arms
  /\ df.arms[n].pc = "dial"
  /\ df' = IF o = "conn"
           THEN [df EXCEPT !.arms[n].pc = "send", !.arms[n].conn = "open"]
           ELSE [df EXCEPT !.arms[n].pc = "send", !.arms[n].released = @ + 1]
  /\ snap' = NoSnap
  /\ ret' = NoRet
  /\ UNCHANGED dialRest

\* The wait loop of dialFirst receives the result arm n sends on resCh.
dialFirstRecv(n) ==
  /\ df.pc = "waiting"
  /\ df.left > 0
  /\ df.res = "none"
  /\ n \in DOMAIN df.arms
  /\ df.arms[n].pc = "send"
  /\ LET got == IF df.arms[n].conn = "open" THEN n ELSE "none" IN
       df' = [df EXCEPT !.arms[n].pc = "done", !.left = @ - 1, !.res = got,
                        !.firstOk = IF @ = "none" THEN got ELSE @]
  /\ snap' = NoSnap
  /\ ret' = NoRet
  /\ UNCHANGED dialRest

\* dialFirst returns: the wait loop has ended, the collector goroutine is
\* started and the deferred cancel runs.
dialFirstReturn ==
  /\ df.pc = "waiting"
  /\ df.left = 0 \/ df.res # "none"
  /\ df' = [df EXCEPT !.pc = "returned", !.cancelled = TRUE,
                      !.hs = IF df.res = "none" THEN "none" ELSE "pending"]
  /\ snap' = NoSnap
  /\ ret' = NoRet
  /\ UNCHANGED dialRest

\* The collector receiving only the results that carry a stream.
dialFirstCollectStreamsOnly(n) ==
  /\ df.pc = "returned"
  /\ df.left > 0
  /\ n \in DOMAIN df.arms
  /\ df.arms[n].pc = "send"
  /\ df.arms[n].conn = "open"
  /\ df' = [df EXCEPT !.left = @ - 1,
                      !.firstOk = IF @ = "none" THEN n ELSE @,
                      !.arms[n] = [closeWrapperClose(@) EXCEPT !.pc = "done"]]
  /\ snap' = NoSnap
  /\ ret' = NoRet
  /\ UNCHANGED dialRest

\* The collector receiving a result and leaving its stream open.
dialFirstCollectNoClose(n) ==
  /\ df.pc = "returned"
  /\ df.left > 0
  /\ n \in DOMAIN df.arms
  /\ df.arms[n].pc = "send"
  /\ df' = [df EXCEPT !.left = @ - 1, !.arms[n].pc = "done",
                      !.firstOk = IF @ = "none" /\ df.arms[n].conn = "open"
                                  THEN n ELSE @]
  /\ snap' = NoSnap
  /\ ret' = NoRet
  /\ UNCHANGED dialRest

\* The collector goroutine receives the result arm n sends and closes its
\* stream, if it has one.
dialFirstCollect(n) ==
  /\ df.pc = "returned"
  /\ df.left > 0
  /\ n \in DOMAIN df.arms
  /\ df.arms[n].pc = "send"
  /\ df' = [df EXCEPT !.left = @ - 1,
                      !.firstOk = IF @ = "none" /\ df.arms[n].conn = "open"
                                  THEN n ELSE @,
                      !.arms[n] = IF @.conn = "open"
                                  THEN [closeWrapperClose(@) EXCEPT !.pc = "done"]
                                  ELSE [@ EXCEPT !.pc = "done"]]
  /\ snap' = NoSnap
  /\ ret' = NoRet
  /\ UNCHANGED dialRest

\* establishOutgoingConnEx after dialFirst returned a stream: the handshakes
\* give no connection and the deferred nc.Close() runs, or they give one.
handshakesConnection(ok) ==
  /\ df.pc = "returned"
  /\ df.hs = "pending"
  /\ df' = IF ok THEN [df EXCEPT !.hs = "ok"]
           ELSE [df EXCEPT !.hs = "failed", !.arms[df.res] = closeWrapperClose(@)]
  /\ snap' = NoSnap
  /\ ret' = NoRet
  /\ UNCHANGED dialRest

\* connection.Close on the connection made of the returned stream: the
\* first call closes the stream.
connectionClose ==
  /\ df.pc = "returned"
  /\ df.hs = "ok"
  /\ df.closes < MaxCloses
  /\ df' = IF df.cclosed THEN [df EXCEPT !.closes = @ + 1]
           ELSE [df EXCEPT !.closes = @ + 1, !.cclosed = TRUE,
                           !.arms[df.res] = closeWrapperClose(@)]
  /\ snap' = NoSnap
  /\ ret' = NoRet
  /\ UNCHANGED dialRest

\* ----------------------------------------------------------------- WaitAll
\* What the WaitAll caller and the download progress leave alone.
idleVars ==
  << config, closed, listeners, acceptLimiter, dopplegangerAddrs, badPeerIPs,
     numHalfOpen, dt, im, md, df, out, nPeers, connVars, firstAdd >>

\* A caller enters WaitAll and waits for the client lock.
WaitAllCall ==
  /\ wpc \in {"idle", "done"}
  /\ wpc' = "called"
  /\ closedInWait' = FALSE
  /\ snap' = NoSnap
  /\ ret' = NoRet
  /\ UNCHANGED << idleVars, torrents, sess, wret >>

\* WaitAll testing cl.closed before allTorrentsCompleted.
WaitAllClosedFirst ==
  /\ wpc \in {"called", "woken"}
  /\ IF closed THEN wpc' = "done" /\ wret' = FALSE
     ELSE IF allTorrentsCompleted THEN wpc' = "done" /\ wret' = TRUE
     ELSE wpc' = "waiting" /\ UNCHANGED wret
  /\ snap' = NoSnap
  /\ ret' = NoRet
  /\ UNCHANGED << idleVars, torrents, sess, closedInWait >>

\* One round of WaitAll's loop under the client lock: it returns, or it
\* releases the lock and blocks in cl.event.Wait().
WaitAll ==
  /\ wpc \in {"called", "woken"}
  /\ IF allTorrentsCompleted THEN wpc' = "done" /\ wret' = TRUE
     ELSE IF closed THEN wpc' = "done" /\ wret' = FALSE
     ELSE wpc' = "waiting" /\ UNCHANGED wret
  /\ snap' = NoSnap
  /\ ret' = NoRet
  /\ UNCHANGED << idleVars, torrents, sess, closedInWait >>

\* A session learns its info: haveInfo becomes true and the event is broadcast.
setInfo(t) ==
  /\ t \in DOMAIN sess
  /\ ~sess[t].haveInfo
  /\ sess' = [sess EXCEPT ![t].haveInfo = TRUE]
  /\ wpc' = Broadcast(wpc)
  /\ snap' = NoSnap
  /\ ret' = NoRet
  /\ UNCHANGED << idleVars, torrents, wret, closedInWait >>

\* A session with info completes its last piece.
pieceCompleted(t) ==
  /\ t \in DOMAIN sess
  /\ sess[t].haveInfo
  /\ ~sess[t].haveAllPieces
  /\ sess' = [sess EXCEPT ![t].haveAllPieces = TRUE]
  /\ wpc' = Broadcast(wpc)
  /\ snap' = NoSnap
  /\ ret' = NoRet
  /\ UNCHANGED << idleVars, torrents, wret, closedInWait >>

\* ---------------------------------------------------------- specifications
\* The public surface with a WaitAll caller and downloads in progress.
Next ==
  \/ \E h \in InfoHashes : AddTorrentInfoHashWithStorage(h)
  \/ \E h \in InfoHashes : dropTorrent(h)
  \/ Close
  \/ WaitAllCall
  \/ WaitAll
  \/ \E t \in 1..MaxSessions : setInfo(t)
  \/ \E t \in 1..MaxSessions : pieceCompleted(t)

\* The client lock is granted to a runnable WaitAll caller in the end.
Spec == Init /\ [][Next]_vars /\ WF_vars(WaitAll)

\* The handshakes the admission gate is exercised with.
GateHandshakes ==
  {in \in HandshakeInputs : in.enc = "plain" /\ in.bt # "refused" /\ in.pid = "p1"}

\* The admission gate: every remote, one infohash.
NextGate ==
  \/ AddTorrentInfoHashWithStorage("h1")
  \/ dropTorrent("h1")
  \/ \E ip \in BannedIPs : banPeerIP(ip)
  \/ acceptLimitClearer
  \/ lAccept
  \/ \E ip \in IPs, port \in Ports : acceptConnections(ip, port)
  \/ \E c \in 1..MaxAccepts, in \in GateHandshakes : doReceiveHandshakes(c, in)
  \/ \E c \in 1..MaxAccepts : runReceivedConn(c)
  \/ \E c \in 1..MaxAccepts : connExit(c)

SpecGate == Init /\ [][NextGate]_vars

\* The remotes incoming connections come from when Close is studied.
ConnIPs == {IP("v4", 1, 7)}

\* Incoming connections against add, drop and Close.
NextConn ==
  \/ AddTorrentInfoHashWithStorage("h1")
  \/ dropTorrent("h1")
  \/ Close
  \/ lAccept
  \/ lAcceptErr
  \/ \E ip \in ConnIPs, port \in Ports : acceptConnections(ip, port)
  \/ \E c \in 1..MaxAccepts, in \in HandshakeInputs : doReceiveHandshakes(c, in)
  \/ \E c \in 1..MaxAccepts : runReceivedConn(c)
  \/ \E c \in 1..MaxAccepts : connExit(c)

SpecConn == Init /\ [][NextConn]_vars

\* The state after construction under one of the configurations cfgs with
\* one of the listener sets lss, before one of the calls dts of
\* reducedDialTimeout and one of the calls dfs of dialFirst.
InitWith(cfgs, lss, dts, dfs, ims, mds) ==
  /\ config \in cfgs
  /\ closed = FALSE
  /\ listeners \in lss
  /\ torrents = EmptyMap
  /\ sess = EmptyMap
  /\ acceptLimiter = EmptyMap
  /\ dopplegangerAddrs = {}
  /\ badPeerIPs = {}
  /\ numHalfOpen = 0
  /\ dt \in dts
  /\ im \in ims
  /\ md \in mds
  /\ df \in dfs
  /\ out = EmptyMap
  /\ nPeers = 0
  /\ acc = [pc |-> "accept", conn |-> FALSE]
  /\ conns = EmptyMap
  /\ nAccepted = 0
  /\ ret = NoRet
  /\ firstAdd = EmptyMap
  /\ snap = NoSnap
  /\ wpc = "idle"
  /\ wret = FALSE
  /\ closedInWait = FALSE

\* The client after construction with no connection registered yet and no
\* metadata exchange under way.
InitFor(cfgs, lss, dts, dfs) == InitWith(cfgs, lss, dts, dfs, {NoInitial}, {NoMeta})

\* Calls of reducedDialTimeout.
NextTimeout == dialTimeout \/ dialTimeoutMorePending

SpecTimeout ==
  InitFor({DefaultConfig}, {{"tcp"}}, TimeoutCalls, {NoDial}) /\ [][NextTimeout]_vars

\* The transports dialFirst is studied with.
Networks == {"tcp", "udp"}

\* The configurations dialFirst is studied under.
DialConfigs ==
  { DefaultConfig,
    [DefaultConfig EXCEPT !.DisableUTP = TRUE],
    [DefaultConfig EXCEPT !.DisableTCP = TRUE, !.DisableUTP = TRUE] }

\* One call of dialFirst, its arms, its collector and its caller.
NextDial ==
  \/ dialFirst
  \/ ctxDone
  \/ \E n \in Networks, got \in BOOLEAN : armWait(n, got)
  \/ \E n \in Networks : armCheck(n)
  \/ \E n \in Networks, o \in {"conn", "forget", "fail"} : armDial(n, o)
  \/ \E n \in Networks : dialFirstRecv(n)
  \/ dialFirstReturn
  \/ \E n \in Networks : dialFirstCollect(n)
  \/ \E ok \in BOOLEAN : handshakesConnection(ok)
  \/ connectionClose

SpecDial ==
  InitFor(DialConfigs, {Networks, {"tcp"}, {}}, {NoCall}, DialCalls) /\ [][NextDial]_vars

\* The encryption policies outgoing attempts are studied under.
EncConfigs ==
  { DefaultConfig,
    [DefaultConfig EXCEPT !.PreferNoEncryption = TRUE],
    [DefaultConfig EXCEPT !.DisableEncryption = TRUE],
    [DefaultConfig EXCEPT !.ForceEncryption = TRUE],
    [DefaultConfig EXCEPT !.ForceEncryption = TRUE, !.PreferNoEncryption = TRUE] }

\* The rounds of an outgoing attempt the encryption policy is studied with:
\* the remote is another client.
EncRounds == {in \in OutInputs : in.pid = "p1"}

\* The receive-side handshakes the encryption policy is studied with.
EncHandshakes ==
  {in \in HandshakeInputs : in.enc \in {"plain", "mse"} /\ in.bt = "ok" /\ in.pid = "p2"}

\* The encryption policy and the infohash match, in both directions.
NextEnc ==
  \/ AddTorrentInfoHashWithStorage("h1")
  \/ \E t \in Registered : AddPeers(t, IP("v4", 1, 7), 6881)
  \/ \E k \in 1..MaxPeers, in \in EncRounds : establishOutgoingConn(k, in)
  \/ \E k \in 1..MaxPeers : outgoingConnection(k)
  \/ lAccept
  \/ \E ip \in ConnIPs : acceptConnections(ip, 6881)
  \/ \E c \in 1..MaxAccepts, in \in EncHandshakes : doReceiveHandshakes(c, in)
  \/ \E c \in 1..MaxAccepts : runReceivedConn(c)
  \/ \E c \in (-MaxPeers)..MaxAccepts : connExit(c)

SpecEnc == InitFor(EncConfigs, {{"tcp"}}, {NoCall}, {NoDial}) /\ [][NextEnc]_vars

\* The rounds of an outgoing attempt the peer table is studied with: the dial
\* fails, or the handshakes succeed with another client.
PeerRounds ==
  {in \in OutInputs :
     in.mse = "ok" /\ in.ih = "h1" /\ in.pid = "p1"
       /\ in.bt = (IF in.dial = "none" THEN "err" ELSE "ok")}

\* The receive-side handshakes the peer table is studied with.
PeerHandshakes ==
  {in \in HandshakeInputs :
     in.enc = "plain" /\ in.bt = "ok" /\ in.ih = "h1" /\ in.pid = "p2"}

\* The half-open table and the connections of one Torrent under the default
\* configuration.
NextPeers ==
  \/ AddTorrentInfoHashWithStorage("h1")
  \/ \E t \in Registered, a \in PeerAddrs : AddPeers(t, a[1], a[2])
  \/ \E k \in 1..MaxPeers, in \in PeerRounds : establishOutgoingConn(k, in)
  \/ \E k \in 1..MaxPeers : outgoingConnection(k)
  \/ lAccept
  \/ \E ip \in ConnIPs : acceptConnections(ip, 6881)
  \/ \E c \in 1..MaxAccepts, in \in PeerHandshakes : doReceiveHandshakes(c, in)
  \/ \E c \in 1..MaxAccepts : runReceivedConn(c)
  \/ \E c \in (-MaxPeers)..MaxAccepts : connExit(c)

SpecPeers == InitFor({DefaultConfig}, {{"tcp"}}, {NoCall}, {NoDial}) /\ [][NextPeers]_vars

\* The rounds of an outgoing attempt the doppelganger set is studied with.
SelfRounds ==
  {in \in OutInputs :
     in.mse = "ok" /\ in.ih = "h1" /\ in.pid \in {"self", "p1"}
       /\ in.bt = (IF in.dial = "none" THEN "err" ELSE "ok")
       /\ (in.dial = "none" => in.pid = "p1")}

\* The receive-side handshakes the doppelganger set is studied with.
SelfHandshakes ==
  {in \in HandshakeInputs :
     in.enc = "plain" /\ in.bt = "ok" /\ in.ih = "h1" /\ in.pid \in {"self", "p2"}}

\* Connections to and from a client that presents the client's own peer id.
NextSelf ==
  \/ AddTorrentInfoHashWithStorage("h1")
  \/ \E t \in Registered : AddPeers(t, IP("v4", 1, 7), 6881)
  \/ \E k \in 1..MaxPeers, in \in SelfRounds : establishOutgoingConn(k, in)
  \/ \E k \in 1..MaxPeers : outgoingConnection(k)
  \/ lAccept
  \/ \E ip \in ConnIPs : acceptConnections(ip, 6881)
  \/ \E c \in 1..MaxAccepts, in \in SelfHandshakes : doReceiveHandshakes(c, in)
  \/ \E c \in 1..MaxAccepts : runReceivedConn(c)
  \/ \E c \in (-MaxPeers)..MaxAccepts : connExit(c)

SpecSelf == InitFor({DefaultConfig}, {{"tcp"}}, {NoCall}, {NoDial}) /\ [][NextSelf]_vars

\* ------------------------------------------------- properties: the registry
\* The client state outside the torrent table and the Torrents.
restVars ==
  << config, closed, listeners, acceptLimiter, dopplegangerAddrs, badPeerIPs,
     numHalfOpen, acc, nAccepted, wpc, wret, closedInWait >>

\* Every registered session has info and all pieces.
EverySessionComplete ==
  \A h \in DOMAIN torrents :
    sess[torrents[h]].haveInfo /\ sess[torrents[h]].haveAllPieces

\* C1: an add of a registered infohash returns new=false and the Torrent that
\* the add which inserted the infohash returned, and changes neither the table
\* nor any Torrent; new=true is returned exactly by the add that inserts the
\* infohash, with a Torrent that did not exist before; the registered Torrent
\* of an infohash is always the one its inserting add returned.
C1_AddReturnsRegistered ==
  [][\A h \in InfoHashes :
       AddTorrentInfoHashWithStorage(h) =>
         /\ ret'.op = "add" /\ ret'.h = h
         /\ ret'.new = (h \notin DOMAIN torrents)
         /\ h \in DOMAIN torrents =>
              /\ ret'.t = firstAdd[h]
              /\ torrents' = torrents /\ sess' = sess
         /\ ret'.new =>
              /\ ret'.t \notin DOMAIN sess
              /\ DOMAIN torrents' = DOMAIN torrents \cup {h}
              /\ \A g \in DOMAIN torrents : torrents'[g] = torrents[g]
         /\ torrents'[h] = ret'.t
         /\ \A g \in DOMAIN torrents' : firstAdd'[g] = torrents'[g]
    ]_vars

\* C1 witness: an infohash was dropped and added again, and a further add of
\* it has just returned the second Torrent with new=false.
C1_Witness ==
  /\ ret.op = "add" /\ ~ret.new /\ ret.t = 2
  /\ sess[1].infoHash = ret.h /\ sess[2].infoHash = ret.h

\* C2: once closed is set it stays set, and from then on no Torrent is
\* registered in the torrent table.
C2_ClosedLatchNoNewTorrent ==
  [][closed =>
       /\ closed'
       /\ \A h \in DOMAIN torrents' :
            h \in DOMAIN torrents /\ torrents'[h] = torrents[h]
    ]_vars

\* C4: a Close of a closed client changes no client state, closes no Torrent
\* again and invokes no callback of cl.onClose again.
C4_SecondCloseNoEffect ==
  [][(closed /\ Close) =>
       /\ ret'.closedTorrents = {} /\ ret'.invoked = {}
       /\ UNCHANGED << torrents, sess, conns, restVars >>
    ]_vars

\* C6: a drop of an unregistered infohash returns the not-found error and
\* changes no client state; a drop of a registered infohash returns no error,
\* closes its Torrent, removes exactly its entry and closes no other Torrent.
C6_DropExactlyOne ==
  [][\A h \in InfoHashes :
       dropTorrent(h) =>
         IF h \notin DOMAIN torrents
         THEN /\ ret'.err = "no such torrent"
              /\ UNCHANGED << torrents, sess, conns, restVars >>
         ELSE /\ ret'.err = "nil"
              /\ sess'[torrents[h]].closed
              /\ DOMAIN torrents' = DOMAIN torrents \ {h}
              /\ \A g \in DOMAIN torrents' :
                   /\ torrents'[g] = torrents[g]
                   /\ sess'[torrents[g]] = sess[torrents[g]]
    ]_vars

\* C6 witness: a drop has just removed one of two registered sessions; the
\* other one is still registered and open.
C6_Witness ==
  /\ ret.op = "drop" /\ ret.err = "nil"
  /\ \E g \in DOMAIN torrents : g # ret.h /\ ~sess[torrents[g]].closed
  /\ \E t \in DOMAIN sess : sess[t].infoHash = ret.h /\ sess[t].closed

\* C7: when WaitAll returns true every registered session has info and all
\* pieces; when it returns false the client is closed and some registered
\* session is incomplete; it blocks only while the client is open and some
\* session is incomplete, so with no session it returns true at once.
C7_WaitAllResult ==
  [][(wpc \in {"called", "woken"} /\ wpc' # wpc) =>
       /\ (wpc' = "done" /\ wret') => EverySessionComplete
       /\ (wpc' = "done" /\ ~wret') => (closed /\ ~EverySessionComplete)
       /\ wpc' # "done" => (wpc' = "waiting" /\ ~closed /\ ~EverySessionComplete)
       /\ DOMAIN torrents = {} => (wpc' = "done" /\ wret')
    ]_vars

\* C7 witness: WaitAll has returned false on a closed client with an
\* incomplete session.
C7_Witness ==
  /\ wpc = "done" /\ ~wret /\ closed /\ ~EverySessionComplete

\* C8 as stated: a WaitAll that was blocked on an incomplete session when
\* Close ran has returned false once it has returned.
C8_ReturnsFalseAfterClose ==
  (wpc = "done" /\ closedInWait) => ~wret

\* C8 as amended: a WaitAll that was blocked on an incomplete session when
\* Close ran returns in the end, and what it returns is whether every session
\* registered at its re-check is complete.
C8_WakesAfterClose ==
  /\ closedInWait ~> (wpc = "done")
  /\ [][(closedInWait /\ wpc # "done" /\ wpc' = "done") =>
          (wret' = EverySessionComplete)]_vars

\* C8 witness: Close ran while WaitAll was blocked, and WaitAll has returned
\* false.
C8_Witness ==
  /\ closedInWait /\ wpc = "done" /\ ~wret

\* ------------------------------------------- properties: the admission gate
\* C3: once Close has returned, no connection is added to the conns of any
\* Torrent.
C3_NoConnAfterClose ==
  [][closed =>
       \A t \in DOMAIN sess' :
         sess'[t].conns \subseteq (IF t \in DOMAIN sess THEN sess[t].conns ELSE {})
    ]_vars

\* C5 as stated: after an add of an unregistered infohash and the drop of it
\* right after, the torrent table, the accept limiter, the bad-peer and
\* doppelganger sets and the half-open counter are what they were before the
\* add.
C5_AddDropRestoresAll ==
  snap.phase = "dropped" => ClientState = snap.pre

\* C5 as amended: after an add of an unregistered infohash and the drop of it
\* right after, the torrent table, the bad-peer and doppelganger sets and the
\* half-open counter are what they were before the add, and the accept
\* limiter is empty, whatever it held before.
C5_AddDropRestoresButLimiter ==
  snap.phase = "dropped" =>
    ClientState = [snap.pre EXCEPT !.acceptLimiter = << >>]

\* C5 witness: an add and the drop right after it have run from a state whose
\* accept limiter held a count and whose table held no torrent.
C5_Witness ==
  /\ snap.phase = "dropped"
  /\ DOMAIN snap.pre.acceptLimiter # {}
  /\ ret.op = "drop" /\ ret.err = "nil"

\* The count the accept limiter holds for the /24 of an IPv4 remote, or for
\* the full address of an IPv6 remote.
LimiterCount(ip) ==
  LET k == IF ip.fam = "v6" THEN ip ELSE [fam |-> "v4", net |-> ip.net, host |-> 0]
  IN  IF k \in DOMAIN acceptLimiter THEN acceptLimiter[k] ELSE 0

\* A reason other than the rate limiter to reject a stream from ip:port.
OtherRejectReason(ip, port) ==
  \/ config.DisableIPv4Peers /\ ip.fam # "v6"
  \/ config.DisableIPv4 /\ ip.fam = "v4"
  \/ config.DisableIPv6 /\ ip.fam = "v6"
  \/ badPeerIPPort(ip, port)

\* C9: with accept rate limiting enabled, a stream accepted while the limiter
\* holds a count above 0 for its remote's /24 (or full IPv6 address) is
\* rejected and no connection task is started for it; a stream accepted while
\* that count is 0 is rejected only for another reason, and is otherwise
\* handed to a connection task that starts the handshake.
C9_RateLimitRejects ==
  (ret.op = "accepted" /\ ~config.DisableAcceptRateLimiting) =>
    /\ LimiterCount(ret.ip) > 0 => (ret.reject /\ nAccepted \notin DOMAIN conns)
    /\ (LimiterCount(ret.ip) = 0 /\ ret.reject) => OtherRejectReason(ret.ip, ret.port)
    /\ ~ret.reject =>
         /\ nAccepted \in DOMAIN conns
         /\ conns[nAccepted].pc = "handshaking" /\ conns[nAccepted].ip = ret.ip

\* C9 witness: a stream from a 4-in-6 address has just been rejected because
\* of a count another address of its /24 earned, with no other reason.
C9_Witness ==
  /\ ret.op = "accepted" /\ ret.reject /\ ~config.DisableAcceptRateLimiting
  /\ ret.ip.fam = "v4in6" /\ LimiterCount(ret.ip) > 0
  /\ ~OtherRejectReason(ret.ip, ret.port)

\* C10: a step of the clearer and an add that inserts a torrent leave the
\* accept limiter empty; every other step leaves every count it held in place
\* and not smaller.
C10_LimiterGrowsUntilCleared ==
  [][IF acceptLimitClearer \/ (ret'.op = "add" /\ ret'.new)
     THEN DOMAIN acceptLimiter' = {}
     ELSE \A k \in DOMAIN acceptLimiter :
            k \in DOMAIN acceptLimiter' /\ acceptLimiter'[k] >= acceptLimiter[k]
    ]_vars

\* C10 witness: an add has just inserted a torrent and emptied a limiter in
\* which one key had grown to a count of 2.
C10_Witness ==
  /\ snap.phase = "added" /\ DOMAIN acceptLimiter = {}
  /\ \E k \in DOMAIN snap.pre.acceptLimiter : snap.pre.acceptLimiter[k] >= 2

C12_ForceEncryptionOnlyObfuscated ==
  config.ForceEncryption =>
    /\ \A k \in DOMAIN out :
         /\ out[k].pc # "panicked"
         /\ Len(out[k].rounds) <= 1
         /\ \A i \in 1..Len(out[k].rounds) : out[k].rounds[i].obf
    /\ \A c \in DOMAIN conns : conns[c].outgoing => conns[c].headerEncrypted

\* C13: with encryption neither forced nor disabled, an attempt that has
\* returned made at most two rounds, the first obfuscated unless
\* PreferNoEncryption, and a first round that gave no connection was followed
\* by exactly one round with the opposite header mode.
C13_FailedFirstRoundRetriedOnce ==
  (~config.ForceEncryption /\ ~config.DisableEncryption) =>
    \A k \in DOMAIN out :
      out[k].pc = "established" =>
        LET r == out[k].rounds IN
          /\ Len(r) \in {1, 2}
          /\ r[1].obf = ~config.PreferNoEncryption
          /\ r[1].ok => Len(r) = 1
          /\ ~r[1].ok => (Len(r) = 2 /\ r[2].obf = ~r[1].obf)

\* C14: every registered connection belongs to the session it is registered
\* in, the infohash of its handshake is that session's, and under
\* ForceEncryption its header is encrypted.
C14_RegisteredPassedChecks ==
  \A t \in DOMAIN sess : \A c \in sess[t].conns :
    /\ conns[c].t = t
    /\ conns[c].ih = sess[t].infoHash
    /\ config.ForceEncryption => conns[c].headerEncrypted

\* C19: for every session, half-open entries plus registered connections
\* number at most EstablishedConnsPerTorrent + HalfOpenConnsPerTorrent.
C19_HalfOpenPlusConnsBounded ==
  \A t \in DOMAIN sess :
    Cardinality(sess[t].halfOpen) + Cardinality(sess[t].conns)
      <= config.EstablishedConnsPerTorrent + config.HalfOpenConnsPerTorrent

\* C19 witness: a session at its half-open cap and at its connection limit.
C19_Witness ==
  \E t \in DOMAIN sess :
    /\ Cardinality(sess[t].halfOpen) = config.HalfOpenConnsPerTorrent
    /\ Cardinality(sess[t].conns) = config.EstablishedConnsPerTorrent
    /\ \E c \in sess[t].conns : conns[c].outgoing

\* The half-open entries of the sessions ts.
RECURSIVE HalfOpenTotal(_)
HalfOpenTotal(ts) ==
  IF ts = {} THEN 0
  ELSE LET t == CHOOSE x \in ts : TRUE IN
         Cardinality(sess[t].halfOpen) + HalfOpenTotal(ts \ {t})

\* C20: no address is in a session's half-open map and the remote address of
\* a connection registered in that session; the global half-open counter is
\* the number of half-open entries of all sessions and is not negative.
C20_HalfOpenDisjointAndCounted ==
  /\ \A t \in DOMAIN sess : \A c \in sess[t].conns :
       JoinHostPort(conns[c].ip, conns[c].port) \notin sess[t].halfOpen
  /\ numHalfOpen = HalfOpenTotal(DOMAIN sess)
  /\ numHalfOpen >= 0

\* -------------------------------------------- properties: the dial timeout
\* The ceiling of a / b for a >= 0 and b >= 1.
CeilDiv(a, b) == (a + b - 1) \div b

\* C15 as stated: the call returns max(min, max / ceil((pending + limit) / limit)).
C15_DivisorIsCeiling ==
  dt.pc = "done" =>
    dt.ret = MaxOf(dt.min, dt.max \div CeilDiv(dt.pending + dt.limit, dt.limit))

\* C15 amended: the call returns max(min, max / floor((pending + limit) / limit)).
C15_DivisorIsFloor ==
  dt.pc = "done" =>
    dt.ret = MaxOf(dt.min, dt.max \div ((dt.pending + dt.limit) \div dt.limit))

\* C15 witness: a call whose pending peers are no multiple of the limit has
\* returned a timeout that the ceiling would not give.
C15_Witness ==
  /\ dt.pc = "done"
  /\ dt.pending % dt.limit # 0
  /\ dt.ret # MaxOf(dt.min, dt.max \div CeilDiv(dt.pending + dt.limit, dt.limit))

ArmsWithStream == {n \in DOMAIN df.arms : df.arms[n].conn # "none"}

\* C17: the call starts one arm per listener whose network is enabled; once
\* it has returned the context is cancelled; it returns no stream only when
\* every arm has delivered a result without a stream, and otherwise the
\* first stream delivered; the stream of every other arm whose result was
\* received is closed, so the returned stream alone can be open and is the
\* only one handshakes run on.
C17_DialFirstReturnsFirstSuccess ==
  /\ df.pc \in {"waiting", "returned"} =>
       DOMAIN df.arms = {n \in listeners : peerNetworkEnabled(n)}
  /\ df.pc = "returned" =>
       /\ df.cancelled
       /\ df.res = "none" =>
            /\ ArmsWithStream = {}
            /\ \A n \in DOMAIN df.arms : df.arms[n].pc = "done"
       /\ df.res # "none" =>
            /\ df.res \in ArmsWithStream
            /\ df.res = df.firstOk
       /\ (df.res = "none") = (df.hs = "none")
       /\ \A n \in DOMAIN df.arms :
            (df.arms[n].pc = "done" /\ n # df.res) => df.arms[n].conn # "open"

\* C17 witness: both transports connected, udp was delivered first and is
\* the open stream the call returned, the tcp stream has been closed.
C17_Witness ==
  /\ df.pc = "returned" /\ df.res = "udp" /\ df.left = 0
  /\ df.arms["udp"].conn = "open"
  /\ df.arms["tcp"].conn = "closed"

RecvConfigs == {DefaultConfig, [DefaultConfig EXCEPT !.ForceEncryption = TRUE]}

\* The remotes of the accepted streams: an IPv4 and an IPv6 address.
RecvIPs == {IP("v4", 1, 7), IP("v6", 1, 9)}

\* Every outcome of the receive-side handshake, from a remote that presents
\* the client's own peer id or another one.
RecvHandshakes == {in \in HandshakeInputs : in.pid \in {"self", "p1"}}

\* Inbound connections from accept to registration.
NextRecv ==
  \/ AddTorrentInfoHashWithStorage("h1")
  \/ lAccept
  \/ \E ip \in RecvIPs : acceptConnections(ip, 6881)
  \/ \E c \in 1..MaxAccepts, in \in RecvHandshakes : doReceiveHandshakes(c, in)
  \/ \E c \in 1..MaxAccepts : runReceivedConn(c)
  \/ \E c \in 1..MaxAccepts : connExit(c)

SpecRecv == InitFor(RecvConfigs, {{"tcp"}}, {NoCall}, {NoDial}) /\ [][NextRecv]_vars

\* receiveHandshakes returned from the encryption handling without an
\* error: no loaded infohash matched as secret key.
NoSecretKeyMatch(c) == c.pc = "handshook" /\ c.stage = "encryption" /\ ~c.err

\* The key of the accept limiter for a remote: its /24 or its full IPv6
\* address.
LimiterKey(ip) ==
  IF ip.fam = "v6" THEN ip ELSE [fam |-> "v4", net |-> ip.net, host |-> 0]

\* The step adds exactly one to the limiter's count for ip and changes no
\* other count.
BumpedOnce(ip) ==
  LET k == LimiterKey(ip) IN
    /\ DOMAIN acceptLimiter' = DOMAIN acceptLimiter \cup {k}
    /\ acceptLimiter'[k] = (IF k \in DOMAIN acceptLimiter THEN acceptLimiter[k] ELSE 0) + 1
    /\ \A j \in DOMAIN acceptLimiter \ {k} : acceptLimiter'[j] = acceptLimiter[j]

\* Connection c is in the conns set of a Torrent after the step.
RegisteredAfter(c) == \E t \in DOMAIN sess' : c \in sess'[t].conns

\* C21 as stated: a receive-side handshake that ends without an error has
\* gone on to the BitTorrent handshake, also when no loaded infohash matched
\* as secret key.
C21_NonmatchReachesBTHandshake ==
  \A c \in DOMAIN conns :
    (conns[c].pc = "handshook" /\ ~conns[c].outgoing /\ ~conns[c].err) =>
      conns[c].stage \in {"bt", "lookup"}

\* C21: when no loaded infohash matches as secret key, receiveHandshakes
\* returns no error and no Torrent without running the BitTorrent handshake,
\* and runReceivedConn then drops the connection unregistered and counts it
\* once as a bad accept.
C21_NonmatchDroppedAsUnloaded ==
  [][\A c \in 1..MaxAccepts :
       /\ \A in \in RecvHandshakes :
            (in.enc = "noskey" /\ doReceiveHandshakes(c, in)) =>
              /\ ~conns'[c].err /\ conns'[c].t = NoTorrent
              /\ conns'[c].stage = "encryption" /\ conns'[c].PeerID = "none"
       /\ (c \in DOMAIN conns /\ NoSecretKeyMatch(conns[c]) /\ runReceivedConn(c)) =>
            /\ c \notin DOMAIN conns'
            /\ sess' = sess
            /\ BumpedOnce(conns[c].ip)]_vars

\* C21 witness: a receive-side handshake has ended on a secret key nonmatch.
C21_Witness == \E c \in DOMAIN conns : NoSecretKeyMatch(conns[c])

\* receiveHandshakes reported a failure or no Torrent for c.
HandshakeFailed(c) == c.err \/ c.t = NoTorrent

\* C22 as stated: every failed inbound handshake, the remote presenting the
\* client's own peer id included, ends unregistered with one more bad accept
\* counted for the remote; a registered connection leaves the limiter alone.
C22_EveryFailureCounted ==
  [][\A c \in 1..MaxAccepts :
       (c \in DOMAIN conns /\ runReceivedConn(c)) =>
         IF HandshakeFailed(conns[c]) \/ conns[c].PeerID = "self"
         THEN ~RegisteredAfter(c) /\ c \notin DOMAIN conns' /\ BumpedOnce(conns[c].ip)
         ELSE RegisteredAfter(c) => acceptLimiter' = acceptLimiter]_vars

\* C22: an inbound connection whose handshake receiveHandshakes reported as
\* failed or without Torrent ends unregistered with exactly one more bad
\* accept counted for its remote's /24 or full IPv6 address; one that presents
\* the client's own peer id ends unregistered with the limiter unchanged; so
\* do one addConnection refuses and one that is registered.
C22_ReportedFailureCounted ==
  [][\A c \in 1..MaxAccepts :
       (c \in DOMAIN conns /\ runReceivedConn(c)) =>
         IF HandshakeFailed(conns[c])
         THEN ~RegisteredAfter(c) /\ c \notin DOMAIN conns' /\ BumpedOnce(conns[c].ip)
         ELSE /\ acceptLimiter' = acceptLimiter
              /\ conns[c].PeerID = "self" =>
                   (~RegisteredAfter(c) /\ c \notin DOMAIN conns')]_vars

\* C22 witness: bad accepts have been counted for an IPv4 remote under its
\* /24 and for an IPv6 remote under its full address.
C22_Witness ==
  /\ DOMAIN acceptLimiter = {IP("v4", 1, 0), IP("v6", 1, 9)}
  /\ \A k \in DOMAIN acceptLimiter : acceptLimiter[k] = 1

\* ------------------------------- properties: registration against drop/Close
\* One Torrent hash, one peer address dialed and accepted from, against add,
\* drop and Close; one stream and one candidate fewer than elsewhere.
NextRace ==
  \/ AddTorrentInfoHashWithStorage("h1")
  \/ dropTorrent("h1")
  \/ Close
  \/ nPeers < MaxPeers - 1 /\ \E t \in DOMAIN sess : AddPeers(t, IP("v4", 1, 7), 6881)
  \/ \E k \in 1..MaxPeers, in \in PeerRounds : establishOutgoingConn(k, in)
  \/ \E k \in 1..MaxPeers : outgoingConnection(k)
  \/ nAccepted < MaxAccepts - 1 /\ lAccept
  \/ \E ip \in ConnIPs : acceptConnections(ip, 6881)
  \/ \E c \in 1..MaxAccepts, in \in PeerHandshakes : doReceiveHandshakes(c, in)
  \/ \E c \in 1..MaxAccepts : runReceivedConn(c)
  \/ \E c \in (-MaxPeers)..MaxAccepts : connExit(c)

SpecRace == InitFor({DefaultConfig}, {{"tcp"}}, {NoCall}, {NoDial}) /\ [][NextRace]_vars

HalfOpenConfigs ==
  {DefaultConfig, [DefaultConfig EXCEPT !.HalfOpenConnsPerTorrent = 2]}

\* Outgoing attempts at one peer address against add, drop and Close.
NextHalfOpen ==
  \/ AddTorrentInfoHashWithStorage("h1")
  \/ dropTorrent("h1")
  \/ Close
  \/ \E t \in DOMAIN sess : AddPeers(t, IP("v4", 1, 7), 6881)
  \/ \E k \in 1..MaxPeers, in \in PeerRounds : establishOutgoingConn(k, in)
  \/ \E k \in 1..MaxPeers : outgoingConnection(k)
  \/ \E c \in (-MaxPeers)..(-1) : connExit(c)

SpecHalfOpen ==
  InitFor(HalfOpenConfigs, {{"tcp"}}, {NoCall}, {NoDial}) /\ [][NextHalfOpen]_vars

\* The half-open entries the tasks in flight of Torrent t stand for.
TaskAddrs(t) ==
  {JoinHostPort(out[k].ip, out[k].port) : k \in {j \in DOMAIN out : out[j].t = t}}

NextAccept ==
  \/ AddTorrentInfoHashWithStorage("h1")
  \/ Close
  \/ lAccept
  \/ lAcceptErr
  \/ \E ip \in RecvIPs, port \in Ports : acceptConnections(ip, port)
  \/ \E c \in 1..MaxAccepts, in \in PeerHandshakes : doReceiveHandshakes(c, in)
  \/ \E c \in 1..MaxAccepts : runReceivedConn(c)
  \/ \E c \in 1..MaxAccepts : connExit(c)

\* Once the listener is closed a blocked Accept returns an error, and the
\* acceptor goroutine goes on from the return of Accept.
SpecAccept ==
  /\ InitFor({DefaultConfig}, {{"tcp"}}, {NoCall}, {NoDial})
  /\ [][NextAccept]_vars
  /\ WF_vars(closed /\ lAcceptErr)
  /\ WF_vars(\E ip \in RecvIPs, port \in Ports : acceptConnections(ip, port))

\* C26: once Close has run the accept loop returns; the step that takes it
\* out of the loop starts no connection task, whether or not Accept had
\* just returned a stream.
C26_AcceptorTerminates ==
  /\ closed ~> (acc.pc = "exited")
  /\ [][(closed /\ acc.pc = "locked" /\ acc' # acc) =>
          (acc'.pc = "exited" /\ conns' = conns)]_vars

\* C26 witness: the accept loop has returned after Close and has closed the
\* stream Accept had just returned.
C26_Witness ==
  /\ closed /\ acc.pc = "exited"
  /\ ret.op = "acceptor exit" /\ ret.conn
  /\ nAccepted \notin DOMAIN conns

\* ------------------------------------------- properties: dialFirst's channel
\* The steps of the goroutine of arm n up to its send on resCh.
armStep(n) ==
  \/ \E got \in BOOLEAN : armWait(n, got)
  \/ armCheck(n)
  \/ \E o \in {"conn", "forget", "fail"} : armDial(n, o)

\* dialFirst with every goroutine of it scheduled: the caller, each arm
\* (ConnTracker.Wait and s.dial return, the context having a deadline) and
\* the collector.
SpecDialFair ==
  /\ InitFor(DialConfigs, {Networks, {"tcp"}, {}}, {NoCall}, DialCalls)
  /\ [][NextDial]_vars
  /\ WF_vars(dialFirst)
  /\ \A n \in Networks : WF_vars(armStep(n))
  /\ WF_vars((\E n \in Networks : dialFirstRecv(n)) \/ dialFirstReturn)
  /\ WF_vars(\E n \in Networks : dialFirstCollect(n))

\* The arms whose result has not been received.
ArmsUnreceived == {n \in DOMAIN df.arms : df.arms[n].pc # "done"}

\* C28: once dialFirst has started its arms, the result of every arm is
\* eventually received and dialFirst has returned; at every moment the
\* receives still to come, by the wait loop or the collector, are as many as
\* the arms whose result has not been received.
C28_EveryArmReceived ==
  /\ (df.pc = "waiting") ~> (df.pc = "returned" /\ df.left = 0 /\ ArmsUnreceived = {})
  /\ [](df.pc \in {"waiting", "returned"} => df.left = Cardinality(ArmsUnreceived))

\* C28 witness: two arms were started, the context was done before either
\* of them dialed, and both empty results have been received.
C28_Witness ==
  /\ df.pc = "returned" /\ df.left = 0
  /\ DOMAIN df.arms = Networks
  /\ \A n \in DOMAIN df.arms :
       df.arms[n].pc = "done" /\ df.arms[n].cte = "nil" /\ df.arms[n].conn = "none"

\* ------------------------------------------------------- initial messages
\* The bits of pp.PeerExtensionBits the client looks at.
ExtensionBits == {"dht", "extended", "fast"}

\* The connections sendInitialMessages is studied with, as addConnection has
\* just registered them: the extension bits of the remote and of the client,
\* the pieces the Torrent has, whether the client has a DHT server, and the
\* messages posted on the connection so far.
InitialCalls ==
  [ pc : {"registered"}, PeerExtensionBytes : SUBSET ExtensionBits,
    extensionBytes : SUBSET ExtensionBits, pieces : {"none", "some", "all"},
    haveDhtServer : BOOLEAN, posted : {<< >>}, later : {0} ]

\* What a step of a registered connection leaves alone.
initialRest ==
  << config, closed, listeners, torrents, sess, acceptLimiter, dopplegangerAddrs,
     badPeerIPs, numHalfOpen, dt, md, df, out, nPeers, connVars, firstAdd, wpc,
     waitVars, closedInWait >>

\* conn.fastEnabled()
fastEnabled(c) == "fast" \in c.PeerExtensionBytes /\ "fast" \in c.extensionBytes

\* The have-related message sendInitialMessages posts; conn.PostBitfield
\* posts a Bitfield.
haveMessage(c) ==
  IF fastEnabled(c) /\ c.pieces = "all" THEN "HaveAll"
  ELSE IF fastEnabled(c) /\ c.pieces = "none" THEN "HaveNone"
  ELSE "Bitfield"

\* sendInitialMessages posting the Port message without asking for a DHT
\* server.
sendInitialMessagesAnyPort ==
  /\ im.pc = "registered"
  /\ LET ext == IF "extended" \in im.PeerExtensionBytes /\ "extended" \in im.extensionBytes
                THEN << "Extended" >> ELSE << >>
         port == IF "dht" \in im.PeerExtensionBytes /\ "dht" \in im.extensionBytes
                 THEN << "Port" >> ELSE << >>
     IN  im' = [im EXCEPT !.pc = "running",
                          !.posted = @ \o ext \o << haveMessage(im) >> \o port]
  /\ snap' = NoSnap
  /\ ret' = NoRet
  /\ UNCHANGED initialRest

\* runHandshookConn from the return of addConnection: sendInitialMessages,
\* under the client lock the registration was made under.
sendInitialMessages ==
  /\ im.pc = "registered"
  /\ LET ext == IF "extended" \in im.PeerExtensionBytes /\ "extended" \in im.extensionBytes
                THEN << "Extended" >> ELSE << >>
         port == IF /\ "dht" \in im.PeerExtensionBytes
                    /\ "dht" \in im.extensionBytes
                    /\ im.haveDhtServer
                 THEN << "Port" >> ELSE << >>
     IN  im' = [im EXCEPT !.pc = "running",
                          !.posted = @ \o ext \o << haveMessage(im) >> \o port]
  /\ snap' = NoSnap
  /\ ret' = NoRet
  /\ UNCHANGED initialRest

\* conn.Post of a later message, by the read loop or the request engine,
\* which take the client lock.
connPost(m) ==
  /\ im.pc = "running"
  /\ im.later < MaxLater
  /\ im' = [im EXCEPT !.posted = Append(@, m), !.later = @ + 1]
  /\ snap' = NoSnap
  /\ ret' = NoRet
  /\ UNCHANGED initialRest

\* A connection from its registration on.
NextInitial ==
  \/ sendInitialMessages
  \/ \E m \in {"Interested", "Have"} : connPost(m)

SpecInitial ==
  InitWith({DefaultConfig}, {{"tcp"}}, {NoCall}, {NoDial}, InitialCalls, {NoMeta})
    /\ [][NextInitial]_vars

\* ------------------------------------------ properties: initial messages
\* The messages a connection starts with when the Port message goes out on
\* condition port.
InitialOrder(port) ==
  (IF "extended" \in im.PeerExtensionBytes /\ "extended" \in im.extensionBytes
   THEN << "Extended" >> ELSE << >>)
  \o << IF "fast" \in im.PeerExtensionBytes /\ "fast" \in im.extensionBytes
           /\ im.pieces \in {"all", "none"}
        THEN (IF im.pieces = "all" THEN "HaveAll" ELSE "HaveNone")
        ELSE "Bitfield" >>
  \o (IF port THEN << "Port" >> ELSE << >>)

\* The messages posted on the connection start with the sequence e.
StartsWith(e) ==
  Len(im.posted) >= Len(e) /\ SubSeq(im.posted, 1, Len(e)) = e

\* Both sides set the DHT bit.
MutualDHT == "dht" \in im.PeerExtensionBytes /\ "dht" \in im.extensionBytes

\* C24 as stated: the messages of a registered connection start with the
\* extended handshake iff both sides support it, then one of HaveAll,
\* HaveNone and Bitfield, then Port iff both sides support DHT.
C24_PortIffMutualDHT ==
  /\ im.pc = "registered" => im.posted = << >>
  /\ im.pc = "running" =>
       /\ StartsWith(InitialOrder(MutualDHT))
       /\ Len(im.posted) = Len(InitialOrder(MutualDHT)) + im.later

\* C24: the messages of a registered connection start with the extended
\* handshake iff both sides support it, then one of HaveAll, HaveNone and
\* Bitfield, then Port iff both sides support DHT and the client has a DHT
\* server; nothing is posted before them.
C24_PortIffMutualDHTAndServer ==
  /\ im.pc = "registered" => im.posted = << >>
  /\ im.pc = "running" =>
       /\ StartsWith(InitialOrder(MutualDHT /\ im.haveDhtServer))
       /\ Len(im.posted) = Len(InitialOrder(MutualDHT /\ im.haveDhtServer)) + im.later

\* C24 witness: both sides support everything, the Torrent has no piece and
\* the client has no DHT server; the initial messages went out without Port
\* and a later message followed.
C24_Witness ==
  /\ im.pc = "running" /\ ~im.haveDhtServer
  /\ im.PeerExtensionBytes = ExtensionBits /\ im.extensionBytes = ExtensionBits
  /\ SubSeq(im.posted, 1, 2) = << "Extended", "HaveNone" >>
  /\ Len(im.posted) = 3

\* ------------------------------------------------------------ ut_metadata
\* The indices of the metadata pieces.
MetaPieces == 0..(MaxMetaPieces - 1)

\* metadataPieceSize(totalSize, piece): the bytes of piece in a metadata of
\* totalSize bytes.
metadataPieceSize(totalSize, piece) ==
  LET rest == totalSize - piece * MaxChunk IN
    IF rest > MaxChunk THEN MaxChunk ELSE rest

\* The ut_metadata payloads a connection receives: the msg_type, piece and
\* total_size of the bencoded dictionary, with len the length of the payload,
\* the dictionary and the bytes that follow it.  The sizes are those of an
\* empty metadata, of one full piece, of one full piece and a byte, and of
\* all pieces full.
MetaMsgs ==
  [ msgType : {"data", "request", "reject", "unknown", "missing"},
    piece : 0..MaxMetaPieces,
    total_size : {0, MaxChunk, MaxChunk + 1, MaxMetaPieces * MaxChunk},
    len : 1..(MaxChunk + 1) ]

\* A Torrent without info and a connection of it: no piece requested, no
\* byte of the metadata stored.
MetaStates ==
  { [ pc |-> "running", metadataRequests |-> [p \in MetaPieces |-> FALSE],
      metadataBytes |-> [p \in MetaPieces |-> 0] ] }

\* What a step of the metadata exchange leaves alone.
metaRest ==
  << config, closed, listeners, torrents, sess, acceptLimiter, dopplegangerAddrs,
     badPeerIPs, numHalfOpen, dt, im, df, out, nPeers, connVars, firstAdd, wpc,
     waitVars, closedInWait >>

\* c.requestedMetadataPiece(piece)
requestedMetadataPiece(piece) == piece \in MetaPieces /\ md.metadataRequests[piece]

\* t.haveMetadataPiece(piece)
haveMetadataPiece(piece) == piece \in MetaPieces /\ md.metadataBytes[piece] > 0

\* The connection requests a metadata piece it has no request pending for.
requestMetadataPiece(piece) ==
  /\ md.pc = "running"
  /\ ~md.metadataRequests[piece]
  /\ md' = [md EXCEPT !.metadataRequests[piece] = TRUE]
  /\ snap' = NoSnap
  /\ ret' = NoRet
  /\ UNCHANGED metaRest

\* The return of gotMetadataExtensionMsg: its error, the message it posted
\* and the state it left, an error ending the connection.
metaReturn(msg, err, posted, state) ==
  /\ md' = IF err = "nil" THEN state ELSE [state EXCEPT !.pc = "closed"]
  /\ ret' = [op |-> "metadata", msg |-> msg, err |-> err, posted |-> posted, pre |-> md]

\* gotMetadataExtensionMsg clearing the pending flag on a Reject.
gotMetadataExtensionMsgRejectClears(msg) ==
  /\ md.pc = "running"
  /\ IF msg.msgType = "missing" THEN metaReturn(msg, "missing msg_type", "none", md)
     ELSE IF msg.msgType = "data"
     THEN IF ~requestedMetadataPiece(msg.piece)
          THEN metaReturn(msg, "unexpected piece", "none", md)
          ELSE LET cleared == [md EXCEPT !.metadataRequests[msg.piece] = FALSE]
                   begin == msg.len - metadataPieceSize(msg.total_size, msg.piece)
               IN  IF begin < 0 \/ begin >= msg.len
                   THEN metaReturn(msg, "bad offset", "none", cleared)
                   ELSE metaReturn(msg, "nil", "none",
                          [cleared EXCEPT !.metadataBytes[msg.piece] = msg.len - begin])
     ELSE IF msg.msgType = "request"
     THEN metaReturn(msg, "nil",
                     IF haveMetadataPiece(msg.piece) THEN "data" ELSE "reject", md)
     ELSE IF msg.msgType = "reject"
     THEN metaReturn(msg, "nil", "none",
                     IF msg.piece \in MetaPieces
                     THEN [md EXCEPT !.metadataRequests[msg.piece] = FALSE] ELSE md)
     ELSE metaReturn(msg, "unknown msg_type", "none", md)
  /\ snap' = NoSnap
  /\ UNCHANGED metaRest

\* gotMetadataExtensionMsg
gotMetadataExtensionMsg(msg) ==
  /\ md.pc = "running"
  /\ IF msg.msgType = "missing" THEN metaReturn(msg, "missing msg_type", "none", md)
     ELSE IF msg.msgType = "data"
     THEN IF ~requestedMetadataPiece(msg.piece)
          THEN metaReturn(msg, "unexpected piece", "none", md)
          ELSE LET cleared == [md EXCEPT !.metadataRequests[msg.piece] = FALSE]
                   begin == msg.len - metadataPieceSize(msg.total_size, msg.piece)
               IN  IF begin < 0 \/ begin >= msg.len
                   THEN metaReturn(msg, "bad offset", "none", cleared)
                   ELSE metaReturn(msg, "nil", "none",
                          [cleared EXCEPT !.metadataBytes[msg.piece] = msg.len - begin])
     ELSE IF msg.msgType = "request"
     THEN metaReturn(msg, "nil",
                     IF haveMetadataPiece(msg.piece) THEN "data" ELSE "reject", md)
     ELSE IF msg.msgType = "reject" THEN metaReturn(msg, "nil", "none", md)
     ELSE metaReturn(msg, "unknown msg_type", "none", md)
  /\ snap' = NoSnap
  /\ UNCHANGED metaRest

\* The metadata exchange of one connection.
NextMeta ==
  \/ \E p \in MetaPieces : requestMetadataPiece(p)
  \/ \E msg \in MetaMsgs : gotMetadataExtensionMsg(msg)

SpecMeta ==
  InitWith({DefaultConfig}, {{"tcp"}}, {NoCall}, {NoDial}, {NoInitial}, MetaStates)
    /\ [][NextMeta]_vars

\* ---------------------------------------------- properties: ut_metadata
\* The message just handled was a Data or a Reject for a piece that was
\* pending on the connection.
MetaPendingGot(type) ==
  /\ ret.op = "metadata" /\ ret.msg.msgType = type
  /\ ret.msg.piece \in MetaPieces /\ ret.pre.metadataRequests[ret.msg.piece]

\* The offset of the data in the payload just handled is out of the payload.
MetaBadOffset ==
  LET size == metadataPieceSize(ret.msg.total_size, ret.msg.piece) IN
    size > ret.msg.len \/ size <= 0

\* C25 as stated: a Data and a Reject for a pending piece clear its flag; a
\* Data for a piece that is not pending, or with a bad offset, is an error
\* that stores nothing and leaves every flag as it was.
C25_RejectClearsAndErrorsKeepFlags ==
  /\ (MetaPendingGot("data") /\ ~MetaBadOffset) => ~md.metadataRequests[ret.msg.piece]
  /\ MetaPendingGot("reject") => ~md.metadataRequests[ret.msg.piece]
  /\ (ret.op = "metadata" /\ ret.msg.msgType = "data"
        /\ (~MetaPendingGot("data") \/ MetaBadOffset)) =>
       /\ ret.err # "nil" /\ md.pc = "closed"
       /\ md.metadataBytes = ret.pre.metadataBytes
       /\ md.metadataRequests = ret.pre.metadataRequests

\* C25: a Data for a pending piece clears the flag of that piece alone,
\* before the offset is looked at: with a good offset the bytes are stored,
\* with a bad one the message is an error that stores nothing.  A Data for a
\* piece that is not pending is an error that stores nothing and leaves the
\* flags as they were.  A Reject is no error and changes neither the flags
\* nor the buffer.
C25_DataClearsRejectIgnored ==
  /\ MetaPendingGot("data") =>
       /\ md.metadataRequests =
            [ret.pre.metadataRequests EXCEPT ![ret.msg.piece] = FALSE]
       /\ IF MetaBadOffset
          THEN /\ ret.err # "nil" /\ md.pc = "closed"
               /\ md.metadataBytes = ret.pre.metadataBytes
          ELSE /\ ret.err = "nil" /\ md.pc = "running"
               /\ md.metadataBytes[ret.msg.piece] > 0
  /\ (ret.op = "metadata" /\ ret.msg.msgType = "data" /\ ~MetaPendingGot("data")) =>
       /\ ret.err # "nil" /\ md.pc = "closed"
       /\ md.metadataBytes = ret.pre.metadataBytes
       /\ md.metadataRequests = ret.pre.metadataRequests
  /\ (ret.op = "metadata" /\ ret.msg.msgType = "reject") =>
       /\ ret.err = "nil" /\ md.pc = "running"
       /\ md.metadataBytes = ret.pre.metadataBytes
       /\ md.metadataRequests = ret.pre.metadataRequests

\* C25 witness: a Data with a bad offset has arrived for a pending piece
\* while another piece was pending too, and that other flag is still set.
C25_Witness ==
  /\ MetaPendingGot("data") /\ MetaBadOffset
  /\ ret.err = "bad offset"
  /\ \E p \in MetaPieces : p # ret.msg.piece /\ md.metadataRequests[p]
====
